---- MODULE Spec2Model ----
(***************************************************************************)
(* Model of the api-gateway request path: circuit breaker, health checker, *)
(* load-balancing strategies, dispatcher (Proxy.Handle), the rate-limiter  *)
(* family over the shared store, the credential cache and the middleware   *)
(* chain.  Time is a discrete clock `now`; one unit is one second.         *)
(***************************************************************************)
EXTENDS Integers, Sequences, FiniteSets, TLC

\* ------------------------------------------------------------------ bounds
\* Number of request slots that may be inside the gateway at the same time.
NReq == 2
\* Number of configured upstream targets of the route.
NTargets == 2
\* Last instant of the discrete clock.
MaxTime == 3
\* circuitbreaker.Config.MaxFailures of the modelled route (scaled down).
MaxFailures == 2
\* circuitbreaker.Config.Timeout of the modelled route, in clock units.
Timeout == 1
\* The cache TTL of a validated credential, 5 minutes, in clock units (scaled down).
CacheTTL == 2
\* The tier's RequestsPerMinute (scaled down).
Limit == 2
\* The rate-limit window of RateLimitWithTier, time.Minute, in clock units (scaled down).
WindowSecs == 2
\* Number of Limiter.Allow calls in a run.
MaxCalls == 5
\* Number of requests that reach the rate check in a run of the pipeline.
MaxRequests == 3
\* circuitbreaker.Config.HalfOpenSuccess of the modelled route.
HalfOpenSuccess == 2
\* healthcheck.Config.MaxFailures of the modelled route (scaled down).
HCMaxFailures == 2
\* Cap on the health checker's per-target FailureCount.
MaxFailureCount == 2
\* Number of goroutines that call CircuitBreaker.Call directly.
NCallers == 3
MaxRejected == 2
MaxWaits == 2
MaxClock == 61
\* main: the grace period of srv.Shutdown, 5*time.Second, in seconds
GraceSecs == 5
\* RateLimitWithTier: the window of every limiter it builds, time.Minute, in seconds
MinuteSecs == 60
\* Number of targets configured for the service in the distribution test.
NConfigured == 3
\* Number of sequential requests the distribution test sends.
RequestCount == 12

Reqs == 1..NReq
Callers == 1..NCallers
Targets == 1..NTargets
\* cfg.Targets, in configuration order
TargetList == [i \in 1..NTargets |-> i]
\* the empty string a strategy returns for an empty candidate list
NoTarget == 0
\* time.Time{} : far enough in the past for every time.Since comparison
ZeroTime == 0 - (Timeout + 2)

StateClosed == "closed"
StateOpen == "open"
StateHalfOpen == "half-open"

\* status codes an upstream round trip can leave in the response recorder
UpstreamStatus == {200, 404, 500}
Strategies == {"round_robin", "random", "least_connections"}

VARIABLES
    now,            \* wall clock
    cb,             \* the route's CircuitBreaker
    healthStatus,   \* Checker.healthStatus : target -> Status
    healthyTargets, \* Checker.healthyTargets
    running,        \* Checker.running
    checking,       \* a checkAll round is in progress
    pending,        \* targets whose probe of the current round has not reported
    loop,           \* the periodic goroutine launched by Start is alive
    strategy,       \* Proxy.loadBalancer (its dynamic type)
    current,        \* RoundRobin.current
    connections,    \* LeastConnections.connections
    ctx,            \* per request slot: the gin.Context inside Proxy.Handle
    failRun,        \* history: failure outcomes recorded since the last success outcome or Reset
    succRun,        \* history: success outcomes recorded since the breaker last entered Half-Open
    redis,          \* the shared state store: values and expiry times per key
    algorithm,      \* the Algorithm of the tier configuration (for a direct caller: of the limiter it built)
    faulty,         \* store operations may fail in this run
    rl,             \* per request slot: the rate check (Limiter.Allow) of the request
    permits,        \* history: number of permitted Allow calls per timestamp and per return time
    calls,          \* number of Allow calls started
    db,             \* the durable registry: the row of the credential
    auth,           \* per request slot: the credential check of the request
    admin,          \* the administrative Delete / Update of the credential
    resetStatus,    \* the answer to the last POST /admin/circuit-breakers/<service> (0: none yet)
    caller,         \* per goroutine calling CircuitBreaker.Call directly: its position in Call
    client,         \* the test client of the gateway: requests sent, tally of X-Backend-Server
    lbUse,          \* the goroutines calling the load-balancing strategy directly, and its locks
    tier,           \* one subject of a tier served by one client at a time: its limiter, last response, tallies
    life,           \* Checker.stopChan, the periodic goroutines alive, a panic of Stop
    server,          \* the process: signal received, listener, requests in flight, exit
    mu,             \* CircuitBreaker.mu: the goroutine writing, the goroutines reading
    pick            \* one strategy called with one candidate list: its state, its callers, what it returned

\* the callers and observers outside Proxy.Handle
obsVars == <<resetStatus, caller, client, lbUse>>
cbVars == <<cb, failRun, succRun, obsVars>>
hcVars == <<healthStatus, healthyTargets, running, checking, pending, loop, life>>
lbVars == <<strategy, current, connections>>
cfgVars == <<algorithm, faulty, tier, server, mu, pick>>
rlVars == <<cfgVars, rl, permits, calls>>
credVars == <<db, auth, admin>>
\* everything outside the dispatcher
extVars == <<redis, rlVars, credVars>>
\* everything of the dispatcher
dpVars == <<cbVars, hcVars, lbVars, ctx>>
vars == <<now, cb, healthStatus, healthyTargets, running, checking, pending, loop,
          strategy, current, connections, ctx, failRun, succRun,
          redis, algorithm, faulty, rl, permits, calls, db, auth, admin, resetStatus, caller, client, lbUse, tier,
          life, server, mu, pick>>

\* ----------------------------------------------------- shared state store
\* Get on a key that does not exist (redis.Nil)
Nil == "nil"
\* a key without a TTL
NoExpiry == 0 - 1

\* the subjects of rate limiting: the API key's ID, or the client IP
Subjects == {"key", "ip"}
\* a fixed-window key that leaves the window number out
FixedKey_NoWindow(s, w) == <<"ratelimit:fixed", s, 0>>
FixedKey(s, w) == <<"ratelimit:fixed", s, w>>
SlidingKey(s) == <<"ratelimit:sliding", s, 0>>
BucketKey(s) == <<"ratelimit:bucket", s, 0>>
CacheKey == <<"apikey:cache", "hash", 0>>
\* the window indexes the clock can produce
Windows == 0..(MaxTime \div WindowSecs)
Keys ==
    {FixedKey(s, w) : s \in Subjects, w \in Windows \cup (0..(MaxClock \div MinuteSecs))}
        \cup {SlidingKey(s) : s \in Subjects}
        \cup {BucketKey(s) : s \in Subjects}
        \cup {CacheKey}

\* kv holds the keys that exist, ttl the time each key runs out
EmptyStore == [kv |-> << >>, ttl |-> [k \in Keys |-> NoExpiry]]

\* the key does not exist (a Get answers redis.Nil)
Missing(st, k) == k \notin DOMAIN st.kv

\* the store with key k holding v
put(st, k, v) ==
    [st EXCEPT !.kv = [j \in DOMAIN st.kv \cup {k} |-> IF j = k THEN v ELSE st.kv[j]]]

\* the store without the keys of set gone
drop(st, gone) ==
    [kv |-> [j \in DOMAIN st.kv \ gone |-> st.kv[j]],
     ttl |-> [j \in Keys |-> IF j \in gone THEN NoExpiry ELSE st.ttl[j]]]

\* the store at time t: keys whose TTL has run out are gone
purge(st, t) ==
    drop(st, {k \in Keys : st.ttl[k] # NoExpiry /\ st.ttl[k] <= t})

\* Incr(key): atomic; a missing key counts from 0 and is created without a TTL
Incr(st, k) ==
    put(st, k, IF Missing(st, k) THEN 1 ELSE st.kv[k] + 1)

\* Expire(key, ttl) at time t: no effect on a missing key
Expire(st, k, d, t) ==
    IF Missing(st, k) THEN st ELSE [st EXCEPT !.ttl[k] = t + d]

\* Get(key)
Get(st, k) == IF Missing(st, k) THEN Nil ELSE st.kv[k]

\* SetWithTTL(key, value, ttl) at time t; ttl 0 keeps the key for ever
Set(st, k, v, d, t) ==
    [put(st, k, v) EXCEPT !.ttl[k] = IF d = 0 THEN NoExpiry ELSE t + d]

\* ZRemRangeByScore(key, lo, hi): bounds inclusive; an emptied set is deleted
ZRemRangeByScore(st, k, lo, hi) ==
    IF Missing(st, k) THEN st
    ELSE LET rest == {e \in st.kv[k] : ~(lo <= e.score /\ e.score <= hi)}
         IN  IF rest = {} THEN drop(st, {k}) ELSE put(st, k, rest)

\* ZCard(key)
ZCard(st, k) == IF Missing(st, k) THEN 0 ELSE Cardinality(st.kv[k])

\* ZAdd(key, score, member): a sorted set holds a member once
ZAdd(st, k, score, member) ==
    LET old == IF Missing(st, k) THEN {} ELSE {e \in st.kv[k] : e.member # member}
    IN  put(st, k, old \cup {[score |-> score, member |-> member]})

\* ----------------------------------------------------------- rate limiter
Algorithms == {"fixed_window", "sliding_window", "token_bucket"}

\* NewLimiter: refillRate := limit / int(window.Seconds()), 1 when that is 0
refillRate == IF Limit \div WindowSecs = 0 THEN 1 ELSE Limit \div WindowSecs
\* NewLimiter: the bucket's capacity is the tier limit
capacity == Limit
\* TokenBucket.Allow: the TTL of the bucket record, time.Hour
BucketTTL == 3600

\* NewLimiter: the limiter built for the algorithm a tier names
NewLimiter(alg) ==
    CASE alg = "token_bucket" -> "token_bucket"
      [] alg = "fixed_window" -> "fixed_window"
      [] OTHER -> "fixed_window"

\* history: the permits given so far, counted under the timestamp the limiter
\* took for the call (stamp) and under the time Allow returned (ret)
NoPermits == [stamp |-> [t \in 0..MaxTime |-> 0], ret |-> [t \in 0..MaxTime |-> 0]]

\* a request slot outside the rate check
IdleRL ==
    [pc |-> "idle", kind |-> "none", subject |-> "none", id |-> 0, now |-> 0,
     count |-> 0, tokens |-> 0, allowed |-> FALSE, err |-> FALSE,
     opFailed |-> FALSE, status |-> 0]

\* the outcomes of a store operation: it may fail only in a faulty run
Outcomes == IF faulty THEN BOOLEAN ELSE {TRUE}

\* RateLimitWithTier after limiter.Allow: 500 on error, 429 when not allowed,
\* else the chain continues (0: no status written by this middleware)
rateLimitStatus_Open(allowed, err) ==
    IF err THEN 500 ELSE 0
rateLimitStatus(allowed, err) ==
    IF err THEN 500 ELSE IF ~allowed THEN 429 ELSE 0

\* a caller holding a limiter built by the constructor of the named algorithm
\* (NewFixedWindow, NewSlidingWindow, NewTokenBucket) calls Allow(ctx, key)
CallAllow(r) ==
    /\ rl[r].pc \in {"idle", "done"}
    /\ calls < MaxCalls
    /\ calls' = calls + 1
    /\ rl' = [rl EXCEPT ![r] = [IdleRL EXCEPT !.pc = "allow", !.kind = algorithm,
                                                !.subject = "key", !.id = calls + 1]]
    /\ UNCHANGED <<now, dpVars, credVars, redis, cfgVars, permits>>

\* Allow returns (allowed, err) to RateLimitWithTier; a permit of a call with
\* timestamp t is logged
Return(r, allowed, err, t, failed) ==
    /\ rl' = [rl EXCEPT ![r] =
               [IdleRL EXCEPT !.pc = "done", !.kind = rl[r].kind,
                              !.subject = rl[r].subject, !.now = t,
                              !.allowed = allowed, !.err = err, !.opFailed = failed,
                              !.status = rateLimitStatus(allowed, err)]]
    /\ permits' = IF allowed /\ ~err
                  THEN [permits EXCEPT !.stamp[t] = @ + 1, !.ret[now] = @ + 1]
                  ELSE permits

\* FixedWindowLimiter.Allow: currentWindow := time.Now().Unix() / window
currentWindow(t) == t \div WindowSecs

\* FixedWindowLimiter.Allow begins: read the clock, build the key
FixedAllow(r) ==
    /\ rl[r].pc = "allow"
    /\ rl[r].kind = "fixed_window"
    /\ rl' = [rl EXCEPT ![r].pc = "incr", ![r].now = now]
    /\ UNCHANGED <<now, dpVars, credVars, redis, cfgVars, permits, calls>>

\* FixedWindowLimiter.Allow: count <= limit
fixedAllowed(count) == count <= Limit

\* FixedWindowLimiter.Allow: Incr; return the error, or go on to Expire when
\* count = 1, or return count <= limit
FixedIncr(r, ok) ==
    /\ rl[r].pc = "incr"
    /\ LET k == FixedKey(rl[r].subject, currentWindow(rl[r].now))
           st == Incr(redis, k)
           count == st.kv[k]
       IN  IF ~ok
           THEN /\ Return(r, FALSE, TRUE, rl[r].now, TRUE)
                /\ UNCHANGED redis
           ELSE /\ redis' = st
                /\ IF count = 1
                   THEN /\ rl' = [rl EXCEPT ![r].pc = "expire", ![r].count = count]
                        /\ UNCHANGED permits
                   ELSE Return(r, fixedAllowed(count), FALSE, rl[r].now, FALSE)
    /\ UNCHANGED <<now, dpVars, credVars, cfgVars, calls>>

\* FixedWindowLimiter.Allow: Expire(key, window), its error ignored; return
FixedExpire(r, ok) ==
    /\ rl[r].pc = "expire"
    /\ rl[r].kind = "fixed_window"
    /\ redis' = IF ok THEN Expire(redis, FixedKey(rl[r].subject, currentWindow(rl[r].now)),
                                  WindowSecs, now)
                      ELSE redis
    /\ Return(r, fixedAllowed(rl[r].count), FALSE, rl[r].now, ~ok)
    /\ UNCHANGED <<now, dpVars, credVars, cfgVars, calls>>

\* SlidingWindowLimiter.Allow begins: now := time.Now()
SlidingAllow(r) ==
    /\ rl[r].pc = "allow"
    /\ rl[r].kind = "sliding_window"
    /\ rl' = [rl EXCEPT ![r].pc = "pipeline", ![r].now = now]
    /\ UNCHANGED <<now, dpVars, credVars, redis, cfgVars, permits, calls>>

\* SlidingWindowLimiter.Allow: the pipeline ZRemRangeByScore(0, now - window)
\* and ZCard, one atomic round trip; not allowed when count >= limit
SlidingPipeline(r, ok) ==
    /\ rl[r].pc = "pipeline"
    /\ LET k == SlidingKey(rl[r].subject)
           st == ZRemRangeByScore(redis, k, 0, rl[r].now - WindowSecs)
           count == ZCard(st, k)
       IN  IF ~ok
           THEN /\ Return(r, FALSE, TRUE, rl[r].now, TRUE)
                /\ UNCHANGED redis
           ELSE /\ redis' = st
                /\ IF count < Limit
                   THEN /\ rl' = [rl EXCEPT ![r].pc = "zadd", ![r].count = count]
                        /\ UNCHANGED permits
                   ELSE Return(r, FALSE, FALSE, rl[r].now, FALSE)
    /\ UNCHANGED <<now, dpVars, credVars, cfgVars, calls>>

\* SlidingWindowLimiter.Allow: ZAdd of the entry scored now, its error
\* ignored; the member is the call's nanosecond timestamp, of which the clock
\* of the model shows the seconds and the call's number stands for the rest
SlidingZAdd(r, ok) ==
    /\ rl[r].pc = "zadd"
    /\ redis' = IF ok THEN ZAdd(redis, SlidingKey(rl[r].subject), rl[r].now,
                                <<rl[r].now, rl[r].id>>)
                      ELSE redis
    /\ rl' = [rl EXCEPT ![r].pc = "expire", ![r].opFailed = ~ok]
    /\ UNCHANGED <<now, dpVars, credVars, cfgVars, permits, calls>>

\* SlidingWindowLimiter.Allow: Expire(key, window), its error ignored; return true
SlidingExpire(r, ok) ==
    /\ rl[r].pc = "expire"
    /\ rl[r].kind = "sliding_window"
    /\ redis' = IF ok THEN Expire(redis, SlidingKey(rl[r].subject), WindowSecs, now)
                      ELSE redis
    /\ Return(r, TRUE, FALSE, rl[r].now, rl[r].opFailed \/ ~ok)
    /\ UNCHANGED <<now, dpVars, credVars, cfgVars, calls>>

\* TokenBucket.Allow: the refill, min(tokens + elapsed * refillRate, capacity)
refill(tokens, lastRefill, t) ==
    LET tokensToAdd == (t - lastRefill) * refillRate
    IN  IF tokens + tokensToAdd < capacity THEN tokens + tokensToAdd ELSE capacity

\* TokenBucket.Allow begins: Get the record (a full bucket when there is
\* none), read the clock, refill; return the error of Get
BucketGet(r, ok) ==
    /\ rl[r].pc = "allow"
    /\ rl[r].kind = "token_bucket"
    /\ LET k == BucketKey(rl[r].subject)
           state == IF Missing(redis, k)
                    THEN [Tokens |-> capacity, LastRefill |-> now]
                    ELSE Get(redis, k)
       IN  IF ~ok
           THEN Return(r, FALSE, TRUE, now, TRUE)
           ELSE /\ rl' = [rl EXCEPT ![r].pc = "set", ![r].now = now,
                            ![r].tokens = refill(state.Tokens, state.LastRefill, now)]
                /\ UNCHANGED permits
    /\ UNCHANGED <<now, dpVars, credVars, redis, cfgVars, calls>>

\* TokenBucket.Allow: take one token when there is one; Set the record, its
\* error ignored; return
BucketSet(r, ok) ==
    /\ rl[r].pc = "set"
    /\ LET take == rl[r].tokens >= 1
           state == [Tokens |-> IF take THEN rl[r].tokens - 1 ELSE rl[r].tokens,
                     LastRefill |-> rl[r].now]
       IN  /\ redis' = IF ok THEN Set(redis, BucketKey(rl[r].subject), state, BucketTTL, now)
                             ELSE redis
           /\ Return(r, take, FALSE, rl[r].now, ~ok)
    /\ UNCHANGED <<now, dpVars, credVars, cfgVars, calls>>

\* ------------------------------------------- one subject, one client at a time
\* the RequestsPerMinute of the tiers: below the window, equal to it, above it
TierLimits == {1, 60, 100}
\* test-token-bucket.ps1: requests of the burst, seconds of the wait, requests
\* after the wait, and the permits the script expects of each
Burst == 65
BurstExpected == 60
WaitSecs == 3
Follow == 35
FollowExpected == 30

\* the waits of a client between two requests: a second, or a window
Waits == {1, MinuteSecs}

\* ZCount(key, lo, hi): bounds inclusive
ZCount(st, k, lo, hi) ==
    IF Missing(st, k) THEN 0
    ELSE Cardinality({e \in st.kv[k] : lo <= e.score /\ e.score <= hi})

\* ZRange(key, 0, 0): the scores of the first entry by score, none for no key
ZRange(st, k) ==
    IF Missing(st, k) THEN {}
    ELSE {e.score : e \in {x \in st.kv[k] : \A y \in st.kv[k] : x.score <= y.score}}

Min(a, b) == IF a < b THEN a ELSE b
\* the greater of two numbers
Max(a, b) == IF a >= b THEN a ELSE b

\* NewFixedWindow, NewSlidingWindowLimiter, NewTokenBucket
NewFixedWindow(limit, window) ==
    [kind |-> "fixed_window", limit |-> limit, window |-> window, refillRate |-> 0]
NewSlidingWindowLimiter(limit, window) ==
    [kind |-> "sliding_window", limit |-> limit, window |-> window, refillRate |-> 0]
NewTokenBucket(cap, rate) ==
    [kind |-> "token_bucket", limit |-> cap, window |-> 0, refillRate |-> rate]

\* NewLimiter: refillRate := limit / int(window.Seconds()), 1 when that is 0
tierRefillRate(limit, window) ==
    IF limit \div window = 0 THEN 1 ELSE limit \div window

\* NewLimiter(redis, algorithm, limit, window)
NewTierLimiter(alg, limit, window) ==
    CASE alg = "token_bucket" -> NewTokenBucket(limit, tierRefillRate(limit, window))
      [] alg = "fixed_window" -> NewFixedWindow(limit, window)
      [] OTHER -> NewFixedWindow(limit, window)

\* Limiter.Window(): for a token bucket the time to refill it, capacity / refillRate
Window(lim) ==
    IF lim.kind = "token_bucket" THEN lim.limit \div lim.refillRate ELSE lim.window

\* FixedWindowLimiter.Remaining: the key it reads, "ratelimit:%s:%d"
RemainingKey(s, w) == <<"ratelimit", s, w>>

\* FixedWindowLimiter.Allow as one call at time t
FixedWindowAllow(lim, st, t) ==
    LET k == FixedKey("key", t \div lim.window)
        st1 == Incr(st, k)
        count == st1.kv[k]
    IN  [allowed |-> count <= lim.limit,
         store |-> IF count = 1 THEN Expire(st1, k, lim.window, t) ELSE st1]

\* FixedWindowLimiter.Remaining: limit for a missing key, else limit - count
\* and not below 0
FixedWindowRemaining(lim, st, t) ==
    LET k == RemainingKey("key", t \div lim.window)
    IN  IF Missing(st, k) THEN lim.limit ELSE Max(lim.limit - Get(st, k), 0)

\* FixedWindowLimiter.Reset: the start of the next window
FixedWindowReset(lim, st, t) == (t \div lim.window + 1) * lim.window

\* SlidingWindowLimiter.Allow as one call at time t; the member is the call's
\* nanosecond timestamp: the entries of one second are told apart by their number
SlidingWindowAllow(lim, st, t) ==
    LET k == SlidingKey("key")
        st1 == ZRemRangeByScore(st, k, 0, t - lim.window)
        count == ZCard(st1, k)
    IN  IF count < lim.limit
        THEN [allowed |-> TRUE,
              store |-> Expire(ZAdd(st1, k, t, <<t, count + 1>>), k, lim.window, t)]
        ELSE [allowed |-> FALSE, store |-> st1]

\* SlidingWindowLimiter.Remaining: limit - ZCount(now - window, now), not below 0
SlidingWindowRemaining(lim, st, t) ==
    Max(lim.limit - ZCount(st, SlidingKey("key"), t - lim.window, t), 0)

\* SlidingWindowLimiter.Reset: the oldest entry + window, now for no entry
SlidingWindowReset(lim, st, t) ==
    LET oldest == ZRange(st, SlidingKey("key"))
    IN  IF oldest = {} THEN t ELSE (CHOOSE o \in oldest : TRUE) + lim.window

\* a refill that is not capped by the capacity
tokenBucketRefill_NoCap(lim, state, t) ==
    state.Tokens + (t - state.LastRefill) * lim.refillRate

\* TokenBucket: min(state.Tokens + elapsed.Seconds() * refillRate, capacity)
tokenBucketRefill(lim, state, t) ==
    Min(state.Tokens + (t - state.LastRefill) * lim.refillRate, lim.limit)

\* TokenBucket.Allow as one call at time t
TokenBucketAllow(lim, st, t) ==
    LET k == BucketKey("key")
        state == IF Missing(st, k) THEN [Tokens |-> lim.limit, LastRefill |-> t]
                                   ELSE Get(st, k)
        tokens == tokenBucketRefill(lim, state, t)
        take == tokens >= 1
    IN  [allowed |-> take,
         store |-> Set(st, k, [Tokens |-> IF take THEN tokens - 1 ELSE tokens,
                               LastRefill |-> t], BucketTTL, t)]

\* TokenBucket.Remaining: capacity for no record, else the refilled tokens
TokenBucketRemaining(lim, st, t) ==
    LET k == BucketKey("key")
    IN  IF Missing(st, k) THEN lim.limit ELSE tokenBucketRefill(lim, Get(st, k), t)

\* TokenBucket.Reset: now for no record, else now + (capacity - tokens) /
\* refillRate in whole seconds
TokenBucketReset(lim, st, t) ==
    LET k == BucketKey("key")
    IN  IF Missing(st, k) THEN t
        ELSE t + (lim.limit - Get(st, k).Tokens) \div lim.refillRate

\* Limiter.Allow, Remaining and Reset by the dynamic type of the limiter
Allow(lim, st, t) ==
    CASE lim.kind = "fixed_window" -> FixedWindowAllow(lim, st, t)
      [] lim.kind = "sliding_window" -> SlidingWindowAllow(lim, st, t)
      [] lim.kind = "token_bucket" -> TokenBucketAllow(lim, st, t)
Remaining(lim, st, t) ==
    CASE lim.kind = "fixed_window" -> FixedWindowRemaining(lim, st, t)
      [] lim.kind = "sliding_window" -> SlidingWindowRemaining(lim, st, t)
      [] lim.kind = "token_bucket" -> TokenBucketRemaining(lim, st, t)
ResetTime(lim, st, t) ==
    CASE lim.kind = "fixed_window" -> FixedWindowReset(lim, st, t)
      [] lim.kind = "sliding_window" -> SlidingWindowReset(lim, st, t)
      [] lim.kind = "token_bucket" -> TokenBucketReset(lim, st, t)

\* no Retry-After header
NoHeader == 0 - 1

\* RateLimitWithTier: retryAfter := int(time.Until(resetTime).Seconds()), 0
\* when negative; late: the fraction of a second by which the clock has moved
\* on since the limiter read it takes a whole second off the truncated value
retryAfter(resetTime, t, late) ==
    Max(resetTime - t - (IF late THEN 1 ELSE 0), 0)

\* RateLimitWithTier on a reliable store, for one request at time t: Allow,
\* Remaining, Reset, the headers, and 429 with Retry-After when not allowed
RateLimitWithTier(lim, st, t, late) ==
    LET a == Allow(lim, st, t)
        resetTime == ResetTime(lim, a.store, t)
    IN  [store |-> a.store,
         status |-> IF a.allowed THEN 200 ELSE 429,
         remaining |-> Remaining(lim, a.store, t),
         reset |-> resetTime,
         retryAfter |-> IF a.allowed THEN NoHeader ELSE retryAfter(resetTime, t, late)]

\* no limiter built, no request sent
NoTier ==
    [limiter |-> [kind |-> "none", limit |-> 0, window |-> 0, refillRate |-> 0],
     sent |-> 0, status |-> 0, remaining |-> 0, reset |-> 0, retryAfter |-> NoHeader,
     at |-> 0, rejected |-> 0, waits |-> 0, burst |-> 0, refilled |-> 0, waited |-> FALSE]

\* the client has the answer to a request it sent at time now; rejected
\* counts the 429 answers in a row
Answered(resp) ==
    [tier EXCEPT !.status = resp.status,
                 !.remaining = resp.remaining,
                 !.reset = resp.reset,
                 !.retryAfter = resp.retryAfter,
                 !.rejected = IF resp.status = 429 THEN Min(@ + 1, MaxRejected) ELSE 0,
                 !.at = now]

\* one request of the subject passes RateLimitWithTier, no other in flight;
\* the client gives up for now after MaxRejected 429 answers in a row
TierRequest(late) ==
    /\ tier.rejected < MaxRejected
    /\ LET resp == RateLimitWithTier(tier.limiter, redis, now, late)
       IN  /\ redis' = resp.store
           /\ tier' = Answered(resp)
    /\ UNCHANGED <<now, dpVars, credVars, algorithm, faulty, server, mu, pick, rl, permits, calls>>

\* the client waits d seconds, MaxWaits times at most; the store drops the
\* keys whose TTL has run out
TierWait(d) ==
    /\ tier.waits < MaxWaits
    /\ now + d <= MaxClock
    /\ now' = now + d
    /\ redis' = purge(redis, now + d)
    /\ tier' = [tier EXCEPT !.waits = @ + 1, !.rejected = 0]
    /\ UNCHANGED <<dpVars, credVars, algorithm, faulty, server, mu, pick, rl, permits, calls>>

\* test-token-bucket.ps1, Test 1: the requests of the burst, one after another
ScriptBurst(late) ==
    /\ ~tier.waited
    /\ tier.sent < Burst
    /\ LET resp == RateLimitWithTier(tier.limiter, redis, now, late)
       IN  /\ redis' = resp.store
           /\ tier' = [Answered(resp) EXCEPT
                          !.sent = @ + 1,
                          !.burst = @ + (IF resp.status # 429 THEN 1 ELSE 0)]
    /\ UNCHANGED <<now, dpVars, credVars, algorithm, faulty, server, mu, pick, rl, permits, calls>>

\* test-token-bucket.ps1, Test 2: Start-Sleep -Seconds 3
ScriptSleep ==
    /\ ~tier.waited
    /\ tier.sent = Burst
    /\ now' = now + WaitSecs
    /\ redis' = purge(redis, now + WaitSecs)
    /\ tier' = [tier EXCEPT !.waited = TRUE]
    /\ UNCHANGED <<dpVars, credVars, algorithm, faulty, server, mu, pick, rl, permits, calls>>

\* test-token-bucket.ps1, Test 2: the requests after the wait
ScriptFollow(late) ==
    /\ tier.waited
    /\ tier.sent < Burst + Follow
    /\ LET resp == RateLimitWithTier(tier.limiter, redis, now, late)
       IN  /\ redis' = resp.store
           /\ tier' = [Answered(resp) EXCEPT
                          !.sent = @ + 1,
                          !.refilled = @ + (IF resp.status # 429 THEN 1 ELSE 0)]
    /\ UNCHANGED <<now, dpVars, credVars, algorithm, faulty, server, mu, pick, rl, permits, calls>>

\* ------------------------------------------------------ credential service
\* the durable registry row of the credential: APIKey.IsActive, or no row
RowStates == {"active", "inactive", "deleted"}

\* a request slot outside the credential check
IdleAuth ==
    [pc |-> "idle", presented |-> "none", start |-> 0, apiKey |-> FALSE, hit |-> FALSE,
     err |-> FALSE, status |-> 0]

\* no administrative operation yet
IdleAdmin == [pc |-> "idle", op |-> "none", returned |-> 0]

\* APIKeyRepository.FindByHash: WHERE key_hash = ? AND is_active = true
FindByHash(row) == row = "active"

\* APIKeyRepository.FindByID: WHERE id = ?
FindByID(row) == row # "deleted"

\* a caller of the service calls Validate(ctx, key) with the credential's secret
CallValidate(r) ==
    /\ auth[r].pc \in {"idle", "validated"}
    /\ auth' = [auth EXCEPT ![r] = [IdleAuth EXCEPT !.pc = "get", !.presented = "key",
                                                    !.start = now]]
    /\ UNCHANGED <<now, dpVars, redis, rlVars, db, admin>>

\* APIKeyService.Validate begins: Get the cache entry; a hit (no error and a
\* non-empty value) returns the cached key, anything else goes to the registry
ValidateGet(r, ok) ==
    /\ auth[r].pc = "get"
    /\ LET hit == ok /\ ~Missing(redis, CacheKey) /\ Get(redis, CacheKey) # ""
       IN  auth' = [auth EXCEPT ![r].pc = IF hit THEN "validated" ELSE "find",
                                ![r].apiKey = hit, ![r].hit = hit]
    /\ UNCHANGED <<now, dpVars, redis, rlVars, db, admin>>

\* APIKeyService.Validate: FindByHash; nil when there is no active row
ValidateFind(r) ==
    /\ auth[r].pc = "find"
    /\ auth' = [auth EXCEPT ![r].pc = IF FindByHash(db) THEN "set" ELSE "validated",
                            ![r].apiKey = FindByHash(db)]
    /\ UNCHANGED <<now, dpVars, redis, rlVars, db, admin>>

\* APIKeyService.Validate: the registry is unavailable, FindByHash returns an
\* error and Validate returns (nil, err)
ValidateFindErr(r) ==
    /\ auth[r].pc = "find"
    /\ auth' = [auth EXCEPT ![r].pc = "validated", ![r].apiKey = FALSE, ![r].err = TRUE]
    /\ UNCHANGED <<now, dpVars, redis, rlVars, db, admin>>

\* APIKeyService.Validate: Set the cache entry for 5 minutes, its error
\* ignored; return the key
ValidateSet(r, ok) ==
    /\ auth[r].pc = "set"
    /\ redis' = IF ok THEN Set(redis, CacheKey, "apiKeyJSON", CacheTTL, now) ELSE redis
    /\ auth' = [auth EXCEPT ![r].pc = "validated"]
    /\ UNCHANGED <<now, dpVars, rlVars, db, admin>>

\* invalidateCache: FindByID, then Set(cacheKey, "", 0), its error ignored;
\* nothing when the row is not found
invalidateCache(st, row, t, ok) ==
    IF FindByID(row) /\ ok THEN Set(st, CacheKey, "", 0, t) ELSE st

\* APIKeyService.Delete and Update(is_active = false) begin: invalidateCache
AdminInvalidate(op, ok) ==
    /\ admin.pc = "idle"
    /\ redis' = invalidateCache(redis, db, now, ok)
    /\ admin' = [admin EXCEPT !.pc = "write", !.op = op]
    /\ UNCHANGED <<now, dpVars, rlVars, db, auth>>

\* APIKeyService.Delete and Update end: the registry write, then return
AdminWrite ==
    /\ admin.pc = "write"
    /\ db' = IF admin.op = "delete" THEN "deleted"
             ELSE IF db = "deleted" THEN db ELSE "inactive"
    /\ admin' = [admin EXCEPT !.pc = "done", !.returned = now]
    /\ UNCHANGED <<now, dpVars, redis, rlVars, auth>>

\* ------------------------------------------------------- circuit breaker
\* circuitbreaker.New with the route's configuration
NewBreaker ==
    [state |-> StateClosed, failureCount |-> 0, successCount |-> 0,
     lastFailureTime |-> ZeroTime, lastStateChange |-> 0]

\* CircuitBreaker.setState
setState(b, newState, t) ==
    IF b.state # newState
    THEN [b EXCEPT !.state = newState, !.lastStateChange = t]
    ELSE b

\* onFailure opening only when the count exceeds maxFailures
onFailure_Strict(b, t) ==
    LET b1 == [b EXCEPT !.failureCount = @ + 1, !.lastFailureTime = t]
    IN  IF b1.state = StateHalfOpen
        THEN [setState(b1, StateOpen, t) EXCEPT !.successCount = 0]
        ELSE IF b1.failureCount > MaxFailures
             THEN setState(b1, StateOpen, t)
             ELSE b1

\* onFailure re-opening from Half-Open without marking the failure time
onFailure_Stale(b, t) ==
    IF b.state = StateHalfOpen
    THEN [setState([b EXCEPT !.failureCount = @ + 1], StateOpen, t)
             EXCEPT !.successCount = 0]
    ELSE LET b1 == [b EXCEPT !.failureCount = @ + 1, !.lastFailureTime = t]
         IN  IF b1.failureCount >= MaxFailures
             THEN setState(b1, StateOpen, t)
             ELSE b1

\* CircuitBreaker.onFailure
onFailure(b, t) ==
    LET b1 == [b EXCEPT !.failureCount = @ + 1, !.lastFailureTime = t]
    IN  IF b1.state = StateHalfOpen
        THEN [setState(b1, StateOpen, t) EXCEPT !.successCount = 0]
        ELSE IF b1.failureCount >= MaxFailures
             THEN setState(b1, StateOpen, t)
             ELSE b1

\* onSuccess closing only when the count exceeds halfOpenSuccess
onSuccess_Strict(b, t) ==
    CASE b.state = StateHalfOpen ->
            LET b1 == [b EXCEPT !.successCount = @ + 1]
            IN  IF b1.successCount > HalfOpenSuccess
                THEN [setState(b1, StateClosed, t) EXCEPT !.failureCount = 0]
                ELSE b1
      [] b.state = StateClosed -> [b EXCEPT !.failureCount = 0]
      [] OTHER -> b

\* onSuccess leaving the failure count of a Closed breaker as it is
onSuccess_KeepCount(b, t) ==
    CASE b.state = StateHalfOpen ->
            LET b1 == [b EXCEPT !.successCount = @ + 1]
            IN  IF b1.successCount >= HalfOpenSuccess
                THEN [setState(b1, StateClosed, t) EXCEPT !.failureCount = 0]
                ELSE b1
      [] OTHER -> b

\* CircuitBreaker.onSuccess
onSuccess(b, t) ==
    CASE b.state = StateHalfOpen ->
            LET b1 == [b EXCEPT !.successCount = @ + 1]
            IN  IF b1.successCount >= HalfOpenSuccess
                THEN [setState(b1, StateClosed, t) EXCEPT !.failureCount = 0]
                ELSE b1
      [] b.state = StateClosed -> [b EXCEPT !.failureCount = 0]
      [] OTHER -> b

\* CircuitBreaker.Call: time.Since(cb.lastFailureTime) > cb.timeout
timedOut(b, t) == t - b.lastFailureTime > Timeout

\* CircuitBreaker.Call, first critical section: TRUE iff the call is rejected
callRejected(b, t) ==
    b.state = StateOpen /\ ~timedOut(b, t)

\* CircuitBreaker.Call, first critical section: the breaker after the gate
callGate(b, t) ==
    IF b.state = StateOpen /\ timedOut(b, t)
    THEN [setState(b, StateHalfOpen, t) EXCEPT !.successCount = 0]
    ELSE b

\* Reset zeroing the counters without forcing the state
resetBreaker_CountsOnly(b, t) ==
    [b EXCEPT !.failureCount = 0, !.successCount = 0, !.lastStateChange = t]

\* CircuitBreaker.Reset
resetBreaker(b, t) ==
    [b EXCEPT !.state = StateClosed, !.failureCount = 0, !.successCount = 0,
              !.lastStateChange = t]

\* -------------------------------------------------------- health checker
\* healthcheck.NewChecker: the status map it builds
NewChecker ==
    [t \in Targets |-> [IsHealthy |-> TRUE, FailureCount |-> 0]]

\* Checker.recordSuccess
recordSuccess_CountOnly(hs, t) ==
    [hs EXCEPT ![t].FailureCount = 0]
recordSuccess(hs, t) ==
    [hs EXCEPT ![t] = [IsHealthy |-> TRUE, FailureCount |-> 0]]

\* Checker.recordFailure
recordFailure_Early(hs, t) ==
    LET n == hs[t].FailureCount + 1
    IN  [hs EXCEPT ![t] = [IsHealthy |-> IF hs[t].IsHealthy /\ n >= HCMaxFailures - 1
                                         THEN FALSE ELSE hs[t].IsHealthy,
                           FailureCount |-> n]]
recordFailure(hs, t) ==
    LET n == hs[t].FailureCount + 1
    IN  [hs EXCEPT ![t] = [IsHealthy |-> IF hs[t].IsHealthy /\ n >= HCMaxFailures
                                         THEN FALSE ELSE hs[t].IsHealthy,
                           FailureCount |-> n]]

\* Checker.updateHealthyTargets: the healthy targets in configuration order
updateHealthyTargets(hs) ==
    SelectSeq(TargetList, LAMBDA t : hs[t].IsHealthy)

\* Checker.GetHealthyTargets: a copy of the current slice
GetHealthyTargets == healthyTargets

\* NewChecker: stopChan made, no goroutine yet; initial: the round in progress
\* is the one Start runs itself
NoLife == [stopChan |-> "open", loops |-> 0, initial |-> FALSE, panicked |-> FALSE]

\* no strategy under study: RoundRobin.current 0, LeastConnections.connections
\* empty (every count 0), nobody inside Next, nothing returned yet
NoPick ==
    [strat |-> "round_robin", targets |-> <<>>, current |-> 0,
     conns |-> [t \in 1..NTargets |-> 0],
     pc |-> [c \in 1..NCallers |-> "ready"], got |-> [c \in 1..NCallers |-> 0],
     held |-> [c \in 1..NCallers |-> FALSE], mu |-> 0, readers |-> {}, out |-> <<>>]

\* the goroutine that calls Reset, after the Call goroutines
Resetter == NCallers + 1

\* the goroutines that call State and Metrics
Readers == {"State", "Metrics"}

\* CircuitBreaker.mu, a sync.RWMutex, unlocked: writer is the goroutine
\* between Lock and Unlock (0: none), readers those between RLock and RUnlock;
\* adm remembers the state in which each goroutine's Call in progress was
\* admitted
NoMu == [writer |-> 0, readers |-> {}, adm |-> [c \in 1..NCallers |-> "none"]]

\* the process serving: no signal yet
NoServer ==
    [phase |-> "serving", accepting |-> TRUE, inflight |-> 0, runReturned |-> FALSE,
     elapsed |-> 0, cut |-> 0, roundAtSignal |-> FALSE]

\* Checker.Start: returns at once when running, else runs the initial checkAll
Start ==
    /\ ~running
    /\ ~checking
    /\ running' = TRUE
    /\ checking' = TRUE
    /\ pending' = Targets
    /\ life' = [life EXCEPT !.initial = TRUE]
    /\ UNCHANGED <<extVars, now, cbVars, healthStatus, healthyTargets, loop, lbVars, ctx>>

\* the ticker of the periodic goroutine fires: checkAll launches one probe per target
TickerFire ==
    /\ loop
    /\ ~checking
    /\ checking' = TRUE
    /\ pending' = Targets
    /\ UNCHANGED <<extVars, now, cbVars, healthStatus, healthyTargets, running, loop, life, lbVars, ctx>>

\* Checker.checkTarget for one target of the round; ok = the probe got 2xx/3xx in time
checkTarget(t, ok) ==
    /\ checking
    /\ t \in pending
    /\ ok \/ healthStatus[t].FailureCount < MaxFailureCount
    /\ healthStatus' = IF ok THEN recordSuccess(healthStatus, t)
                             ELSE recordFailure(healthStatus, t)
    /\ pending' = pending \ {t}
    /\ UNCHANGED <<extVars, now, cbVars, healthyTargets, running, checking, loop, life, lbVars, ctx>>

\* Checker.checkAll after wg.Wait(): publish the healthy subset; the first
\* round is the one Start runs before it launches the periodic goroutine
checkAllDone ==
    /\ checking
    /\ pending = {}
    /\ healthyTargets' = updateHealthyTargets(healthStatus)
    /\ checking' = FALSE
    /\ loop' = TRUE
    /\ life' = IF life.initial
               THEN [life EXCEPT !.initial = FALSE, !.loops = @ + 1]
               ELSE life
    /\ UNCHANGED <<extVars, now, cbVars, healthStatus, running, pending, lbVars, ctx>>

\* Checker.Stop: under the lock, if running, close(stopChan) and running =
\* false; closing a channel that is already closed panics
Stop ==
    /\ ~life.panicked
    /\ running
    /\ IF life.stopChan = "closed"
       THEN /\ life' = [life EXCEPT !.panicked = TRUE]
            /\ UNCHANGED running
       ELSE /\ life' = [life EXCEPT !.stopChan = "closed"]
            /\ running' = FALSE
    /\ UNCHANGED <<extVars, now, cbVars, healthStatus, healthyTargets, checking, pending,
                   loop, lbVars, ctx>>

\* a periodic goroutine at its select receives from the closed stopChan and
\* returns
LoopExit ==
    /\ ~life.panicked
    /\ life.loops > 0
    /\ life.stopChan = "closed"
    /\ ~checking \/ life.initial \/ life.loops > 1
    /\ life' = [life EXCEPT !.loops = @ - 1]
    /\ loop' = (life.loops > 1)
    /\ UNCHANGED <<extVars, now, cbVars, healthStatus, healthyTargets, running, checking,
                   pending, lbVars, ctx>>

\* the process has not died of a panic
NoPanic == ~life.panicked

\* --------------------------------------------------------- process lifecycle
\* the listener accepts a connection and the router starts serving its request
ServerAccept ==
    /\ server.phase # "exited"
    /\ server.accepting
    /\ server.inflight < NReq
    /\ server' = [server EXCEPT !.inflight = @ + 1]
    /\ UNCHANGED <<now, dpVars, credVars, redis, algorithm, faulty, tier, mu, pick, rl, permits, calls>>

\* a request in flight is answered
ServerFinish ==
    /\ server.phase # "exited"
    /\ server.inflight > 0
    /\ server' = [server EXCEPT !.inflight = @ - 1]
    /\ UNCHANGED <<now, dpVars, credVars, redis, algorithm, faulty, tier, mu, pick, rl, permits, calls>>

\* main receives SIGINT or SIGTERM and calls srv.Shutdown(ctx) with the grace
\* period: Server.Shutdown is httpServer.Shutdown and nothing else; the
\* listener is closed, and ListenAndServe returns http.ErrServerClosed in the
\* goroutine that called srv.Run
Signal ==
    /\ server.phase = "serving"
    /\ server' = [server EXCEPT !.phase = "shutdown", !.accepting = FALSE,
                                 !.runReturned = TRUE, !.roundAtSignal = checking]
    /\ UNCHANGED <<now, dpVars, credVars, redis, algorithm, faulty, tier, mu, pick, rl, permits, calls>>

\* a second of the grace period passes
GraceTick ==
    /\ server.phase = "shutdown"
    /\ server.elapsed < GraceSecs
    /\ server' = [server EXCEPT !.elapsed = @ + 1]
    /\ UNCHANGED <<now, dpVars, credVars, redis, algorithm, faulty, tier, mu, pick, rl, permits, calls>>

\* the goroutine of srv.Run: err != nil, log.Fatalf, the process exits with
\* the requests still in flight cut
RunFatal ==
    /\ server.phase = "shutdown"
    /\ server.runReturned
    /\ server' = [server EXCEPT !.phase = "exited", !.cut = server.inflight, !.inflight = 0]
    /\ UNCHANGED <<now, dpVars, credVars, redis, algorithm, faulty, tier, mu, pick, rl, permits, calls>>

\* httpServer.Shutdown returns, nil when no request is in flight or the
\* context's error when the grace period is over, and main exits
ShutdownReturn ==
    /\ server.phase = "shutdown"
    /\ server.inflight = 0 \/ server.elapsed = GraceSecs
    /\ server' = [server EXCEPT !.phase = "exited", !.cut = server.inflight, !.inflight = 0]
    /\ UNCHANGED <<now, dpVars, credVars, redis, algorithm, faulty, tier, mu, pick, rl, permits, calls>>

\* the process lives: its goroutines run
Alive == server.phase # "exited"

\* ---------------------------------------------------------- load balancer
RECURSIVE Factorial(_)
Factorial(n) == IF n <= 1 THEN 1 ELSE n * Factorial(n - 1)

\* RoundRobin.current is kept modulo a common multiple of every candidate-list
\* length: Next only ever reads current % len(targets)
RRPeriod == Factorial(NTargets)

\* RoundRobin.Next indexing the configured target list instead of its argument
rrNext_Configured(targets, cur) ==
    IF Len(targets) = 0 THEN NoTarget ELSE TargetList[(cur % NTargets) + 1]

\* RoundRobin.Next: the selected target (the counter is advanced by the action)
rrNext(targets, cur) ==
    IF Len(targets) = 0 THEN NoTarget ELSE targets[(cur % Len(targets)) + 1]

\* Random.Next: the targets rng.Intn can select
randomNext(targets) ==
    IF Len(targets) = 0 THEN {NoTarget} ELSE {targets[i] : i \in 1..Len(targets)}

\* int(^uint(0) >> 1), the initial minConn of LeastConnections.Next
MaxInt == 2147483647

\* the loop of LeastConnections.Next taking a later candidate on an equal count
RECURSIVE lcScan_Last(_, _, _, _, _)
lcScan_Last(targets, conns, i, minConn, selected) ==
    IF i > Len(targets) THEN selected
    ELSE IF conns[targets[i]] <= minConn
         THEN lcScan_Last(targets, conns, i + 1, conns[targets[i]], targets[i])
         ELSE lcScan_Last(targets, conns, i + 1, minConn, selected)

\* the loop of LeastConnections.Next over targets[i..], carrying minConn and selected
RECURSIVE lcScan(_, _, _, _, _)
lcScan(targets, conns, i, minConn, selected) ==
    IF i > Len(targets) THEN selected
    ELSE IF conns[targets[i]] < minConn
         THEN lcScan(targets, conns, i + 1, conns[targets[i]], targets[i])
         ELSE lcScan(targets, conns, i + 1, minConn, selected)

\* LeastConnections.Next
lcNext(targets, conns) ==
    IF Len(targets) = 0 THEN NoTarget
    ELSE LET selected == lcScan(targets, conns, 1, MaxInt, NoTarget)
         IN  IF selected = NoTarget THEN targets[1] ELSE selected

\* LeastConnections.Increment
Increment(conns, t) == [conns EXCEPT ![t] = @ + 1]

\* LeastConnections.Decrement
Decrement_Skip(conns, t) == conns
Decrement(conns, t) == IF conns[t] > 0 THEN [conns EXCEPT ![t] = @ - 1] ELSE conns

\* Strategy.Next as Proxy.Handle calls it: the targets the strategy may return
Next_(strat, targets, cur, conns) ==
    CASE strat = "round_robin" -> {rrNext(targets, cur)}
      [] strat = "random" -> randomNext(targets)
      [] OTHER -> {lcNext(targets, conns)}

\* the strategy's methods as concurrent goroutines call them
Ops == {"Next", "Increment", "Decrement"}

\* the lock a method holds while it works on the strategy's state: RoundRobin.Next
\* locks mu, LeastConnections.Next read-locks mu, Increment and Decrement lock
\* mu, Random.Next takes no lock
Mode(strat, op) ==
    CASE strat = "round_robin" -> "Lock"
      [] strat = "random" -> "none"
      [] OTHER -> IF op = "Next" THEN "RLock" ELSE "Lock"

\* TRUE iff the method writes the strategy's mutable state: r.current++,
\* rng.Intn (it advances the generator), connections[target]++ and --
Writes(strat, op) ==
    CASE strat = "round_robin" -> TRUE
      [] strat = "random" -> TRUE
      [] OTHER -> op # "Next"

\* no goroutine is inside the strategy; mu is free
IdleSel ==
    [pc |-> [c \in Callers |-> "ready"], op |-> [c \in Callers |-> "Next"],
     target |-> [c \in Callers |-> NoTarget], raced |-> [c \in Callers |-> FALSE],
     panicked |-> [c \in Callers |-> FALSE], mu |-> 0, readers |-> {}]

\* the goroutines that are working on the strategy's state
Inside == {c \in Callers : lbUse.pc[c] = "in"}

\* goroutine c begins its method: it takes the method's lock, if any, and
\* starts to work on the state
SelEnter(c) ==
    /\ lbUse.pc[c] = "ready"
    /\ LET mode == Mode(strategy, lbUse.op[c])
           clash == {d \in Inside : Writes(strategy, lbUse.op[c]) \/ Writes(strategy, lbUse.op[d])}
       IN  /\ mode = "Lock" => (lbUse.mu = 0 /\ lbUse.readers = {})
           /\ mode = "RLock" => lbUse.mu = 0
           /\ lbUse' = [lbUse EXCEPT
                  !.pc[c] = "in",
                  !.mu = IF mode = "Lock" THEN c ELSE @,
                  !.readers = IF mode = "RLock" THEN @ \cup {c} ELSE @,
                  !.raced = [d \in Callers |->
                               IF clash # {} /\ d \in clash \cup {c} THEN TRUE ELSE @[d]]]
    /\ UNCHANGED <<extVars, now, cb, failRun, succRun, resetStatus, caller, client,
                   hcVars, lbVars, ctx>>

\* the method that follows op in a goroutine that does what Proxy.Handle does
NextOp(strat, op) ==
    CASE op = "Next" -> IF strat = "least_connections" THEN "Increment" ELSE "Next"
      [] op = "Increment" -> "Decrement"
      [] OTHER -> "Next"

\* goroutine c finishes its method and releases its lock; a method that ran
\* unsynchronised with a conflicting access returns any target or panics
SelLeave(c) ==
    /\ lbUse.pc[c] = "in"
    /\ LET op == lbUse.op[c]
           done == [lbUse EXCEPT
                      !.pc[c] = "ready",
                      !.op[c] = NextOp(strategy, op),
                      !.raced[c] = FALSE,
                      !.mu = IF @ = c THEN 0 ELSE @,
                      !.readers = @ \ {c}]
       IN  CASE op = "Next" ->
                  /\ \/ \E t \in Next_(strategy, TargetList, current, connections) :
                           lbUse' = [done EXCEPT !.target[c] = t, !.panicked[c] = FALSE]
                     \/ /\ lbUse.raced[c]
                        /\ lbUse' = [done EXCEPT !.target[c] = NoTarget, !.op[c] = "Next",
                                               !.panicked[c] = TRUE]
                  /\ current' = IF strategy = "round_robin"
                                 THEN (current + 1) % RRPeriod ELSE current
                  /\ UNCHANGED connections
            [] op = "Increment" ->
                  /\ lbUse' = done
                  /\ connections' = Increment(connections, lbUse.target[c])
                  /\ UNCHANGED current
            [] OTHER ->
                  /\ lbUse' = done
                  /\ connections' = Decrement(connections, lbUse.target[c])
                  /\ UNCHANGED current
    /\ UNCHANGED <<extVars, now, cb, failRun, succRun, resetStatus, caller, client,
                   hcVars, strategy, ctx>>

NextSelect ==
    \/ \E c \in Callers : SelEnter(c)
    \/ \E c \in Callers : SelLeave(c)

\* --------------------------------------- a strategy and its candidate list
\* the candidate lists a caller can pass: the non-empty lists of distinct targets
CandidateLists ==
    {l \in UNION {[1..n -> Targets] : n \in 1..NTargets} :
        \A i, j \in DOMAIN l : i # j => l[i] # l[j]}

\* what the steps of the strategy under study leave alone
pickFrame ==
    <<now, dpVars, credVars, redis, algorithm, faulty, tier, server, mu, rl, permits, calls>>

\* Next up to its lock: RoundRobin.Next locks mu, LeastConnections.Next
\* read-locks it
PickEnter(c) ==
    /\ pick.pc[c] = "ready"
    /\ ~pick.held[c]
    /\ Len(pick.out) + Cardinality({d \in Callers : pick.pc[d] = "in"}) < MaxCalls
    /\ IF pick.strat = "round_robin"
       THEN /\ pick.mu = 0
            /\ pick' = [pick EXCEPT !.pc[c] = "in", !.mu = c]
       ELSE /\ pick.mu = 0
            /\ pick' = [pick EXCEPT !.pc[c] = "in", !.readers = @ \cup {c}]
    /\ UNCHANGED pickFrame

\* Next from its lock to its return: the target selected, r.current++ for
\* round robin, the deferred unlock
PickLeave(c) ==
    /\ pick.pc[c] = "in"
    /\ IF pick.strat = "round_robin"
       THEN LET t == rrNext(pick.targets, pick.current)
            IN  pick' = [pick EXCEPT !.pc[c] = "ready", !.mu = 0, !.got[c] = t,
                                     !.current = @ + 1,
                                     !.out = Append(@, <<pick.current, t>>)]
       ELSE LET t == lcNext(pick.targets, pick.conns)
            IN  pick' = [pick EXCEPT !.pc[c] = "ready", !.readers = @ \ {c},
                                     !.got[c] = t, !.out = Append(@, <<pick.current, t>>)]
    /\ UNCHANGED pickFrame

\* LeastConnections.Increment of the target the caller was given
PickIncrement(c) ==
    /\ pick.strat = "least_connections"
    /\ pick.pc[c] = "ready"
    /\ pick.got[c] # NoTarget
    /\ ~pick.held[c]
    /\ pick.mu = 0 /\ pick.readers = {}
    /\ pick' = [pick EXCEPT !.conns = Increment(@, pick.got[c]), !.held[c] = TRUE]
    /\ UNCHANGED pickFrame

\* LeastConnections.Decrement of the target the caller had counted
PickDecrement(c) ==
    /\ pick.strat = "least_connections"
    /\ pick.held[c]
    /\ pick.mu = 0 /\ pick.readers = {}
    /\ pick' = [pick EXCEPT !.conns = Decrement(@, pick.got[c]), !.held[c] = FALSE]
    /\ UNCHANGED pickFrame

\* ------------------------------------------------------------- dispatcher
\* the targets configured for the service of the route (svc.Targets)
ServiceTargets == [i \in 1..NConfigured |-> i]

\* the test client before its first request
IdleClient ==
    [sent |-> 0, waiting |-> FALSE, errors |-> 0,
     distribution |-> [t \in 1..NConfigured |-> 0]]

\* a goroutine that is not inside CircuitBreaker.Call
IdleCaller == [pc |-> "idle", err |-> "nil"]

\* a request slot with no request inside Proxy.Handle
IdleCtx ==
    [pc |-> "idle", healthyTargets |-> <<>>, selectedTarget |-> NoTarget,
     statusCode |-> 0, status |-> 0, backend |-> NoTarget, forwarded |-> FALSE,
     panicked |-> FALSE]


\* the route handler registered by setupProxyRoutes is invoked for the next
\* request of the slot
Arrive(r) ==
    /\ ctx[r].pc = "done"
    /\ ctx' = [ctx EXCEPT ![r] = IdleCtx]
    /\ UNCHANGED <<extVars, now, cbVars, hcVars, lbVars>>

\* Proxy.Handle begins: read the healthy subset; answer 503 when it is empty
HandleGetHealthy_Select(r) ==
    /\ loop
    /\ ctx[r].pc = "idle"
    /\ ctx' = [ctx EXCEPT ![r] = [IdleCtx EXCEPT !.pc = "next",
                                               !.healthyTargets = GetHealthyTargets]]
    /\ UNCHANGED <<extVars, now, cbVars, hcVars, lbVars>>
HandleGetHealthy(r) ==
    /\ loop
    /\ ctx[r].pc = "idle"
    /\ LET healthy == GetHealthyTargets
       IN  ctx' = [ctx EXCEPT ![r] =
                IF Len(healthy) = 0
                THEN [IdleCtx EXCEPT !.pc = "done", !.status = 503]
                ELSE [IdleCtx EXCEPT !.pc = "next", !.healthyTargets = healthy]]
    /\ UNCHANGED <<extVars, now, cbVars, hcVars, lbVars>>

\* Proxy.Handle: select the target with the load balancer
HandleNext(r) ==
    /\ ctx[r].pc = "next"
    /\ \E sel \in Next_(strategy, ctx[r].healthyTargets, current, connections) :
         ctx' = [ctx EXCEPT ![r] =
                IF sel = NoTarget \/ sel \notin Targets
                THEN [@ EXCEPT !.pc = "done", !.status = 503]
                ELSE [@ EXCEPT !.selectedTarget = sel,
                               !.pc = IF strategy = "least_connections"
                                      THEN "increment" ELSE "call"]]
    /\ current' = IF strategy = "round_robin" THEN (current + 1) % RRPeriod ELSE current
    /\ UNCHANGED <<extVars, now, cbVars, hcVars, strategy, connections>>

\* Proxy.Handle: lc.Increment(selectedTarget), with the Decrement deferred
HandleIncrement(r) ==
    /\ ctx[r].pc = "increment"
    /\ connections' = Increment(connections, ctx[r].selectedTarget)
    /\ ctx' = [ctx EXCEPT ![r].pc = "call"]
    /\ UNCHANGED <<extVars, now, cbVars, hcVars, strategy, current>>

\* CircuitBreaker.Call up to fn: reject while Open within Timeout, else admit
CallEnter(r) ==
    /\ ctx[r].pc = "call"
    /\ IF callRejected(cb, now)
       THEN /\ ctx' = [ctx EXCEPT ![r].pc = "exit", ![r].status = 503]
            /\ UNCHANGED cbVars
       ELSE /\ cb' = callGate(cb, now)
            /\ succRun' = IF cb.state = StateOpen THEN 0 ELSE succRun
            /\ failRun' = failRun
            /\ UNCHANGED obsVars
            /\ ctx' = [ctx EXCEPT ![r].pc = "fn"]
    /\ UNCHANGED <<extVars, now, hcVars, lbVars>>

\* the closure passed to Call: set X-Backend-Server, forward, capture the status
Forward(r, code) ==
    /\ ctx[r].pc = "fn"
    /\ ctx' = [ctx EXCEPT ![r].pc = "record", ![r].backend = ctx[r].selectedTarget,
                          ![r].forwarded = TRUE, ![r].statusCode = code,
                          ![r].status = code]
    /\ UNCHANGED <<extVars, now, cbVars, hcVars, lbVars>>

\* the closure panics inside ServeHTTP (the reverse proxy aborts the handler):
\* Call is left without recording an outcome, the deferred calls of Handle run
\* and Recovery answers 500
ForwardPanic(r) ==
    /\ ctx[r].pc = "fn"
    /\ ctx' = [ctx EXCEPT ![r].pc = "exit", ![r].backend = ctx[r].selectedTarget,
                          ![r].forwarded = TRUE, ![r].status = 500,
                          ![r].panicked = TRUE]
    /\ UNCHANGED <<extVars, now, cbVars, hcVars, lbVars>>

\* the closure's result: an error iff recorder.statusCode >= 500
fnFailed_ClientErrors(code) == code >= 400
fnFailed(code) == code >= 500

\* CircuitBreaker.Call after fn: record the outcome under the lock
CallRecord(r) ==
    /\ ctx[r].pc = "record"
    /\ IF fnFailed(ctx[r].statusCode)
       THEN /\ cb' = onFailure(cb, now)
            /\ failRun' = Min(failRun + 1, MaxFailures)
            /\ succRun' = 0
       ELSE /\ cb' = onSuccess(cb, now)
            /\ failRun' = 0
            /\ succRun' = IF cb.state = StateHalfOpen
                          THEN Min(succRun + 1, HalfOpenSuccess) ELSE succRun
    /\ ctx' = [ctx EXCEPT ![r].pc = "exit"]
    /\ UNCHANGED <<extVars, now, hcVars, lbVars, obsVars>>

\* Proxy.Handle returns: the deferred lc.Decrement runs
HandleReturn(r) ==
    /\ ctx[r].pc = "exit"
    /\ connections' = IF strategy = "least_connections"
                      THEN Decrement(connections, ctx[r].selectedTarget)
                      ELSE connections
    /\ ctx' = [ctx EXCEPT ![r] = [IdleCtx EXCEPT !.pc = "done", !.status = ctx[r].status,
                                              !.backend = ctx[r].backend,
                                              !.forwarded = ctx[r].forwarded,
                                              !.panicked = ctx[r].panicked]]
    /\ UNCHANGED <<extVars, now, cbVars, hcVars, strategy, current>>

\* the keys of SystemHandler.proxies: the path of the configured route
Services == {"/api/users"}

\* the values the wildcard parameter of a reset request can take
ServiceParams == Services \cup {"/api/orders"}

\* SystemHandler.ResetCircuitBreaker: 404 when no proxy is registered under the
\* parameter, else CircuitBreaker.Reset on the route's breaker and 200
Reset(service) ==
    /\ IF service \in Services
       THEN /\ cb' = resetBreaker(cb, now)
            /\ failRun' = 0
            /\ succRun' = 0
            /\ resetStatus' = 200
       ELSE /\ resetStatus' = 404
            /\ UNCHANGED <<cb, failRun, succRun>>
    /\ UNCHANGED <<extVars, now, hcVars, lbVars, ctx, caller, client, lbUse>>

\* the wall clock advances; the store drops the keys whose TTL has run out
Tick ==
    /\ now < MaxTime
    /\ now' = now + 1
    /\ redis' = purge(redis, now + 1)
    /\ UNCHANGED <<rlVars, credVars, cbVars, hcVars, lbVars, ctx>>

\* proxy.NewWithConfig up to hc.Start(), for each load-balancing strategy
InitDispatch ==
    /\ now = 0
    /\ cb = NewBreaker
    /\ resetStatus = 0
    /\ caller = [c \in Callers |-> IdleCaller]
    /\ client = IdleClient
    /\ lbUse = IdleSel
    /\ healthStatus = NewChecker
    /\ healthyTargets = <<>>
    /\ running = FALSE
    /\ checking = FALSE
    /\ pending = {}
    /\ loop = FALSE
    /\ life = [NoLife EXCEPT !.loops = IF loop THEN 1 ELSE 0]
    /\ strategy \in Strategies
    /\ current = 0
    /\ connections = [t \in Targets |-> 0]
    /\ ctx = [r \in Reqs |-> IdleCtx]
    /\ failRun = 0
    /\ succRun = 0
    /\ redis = EmptyStore
    /\ algorithm = "fixed_window"
    /\ faulty = FALSE
    /\ server = NoServer
    /\ mu = NoMu
    /\ pick = NoPick
    /\ tier = NoTier
    /\ rl = [r \in Reqs |-> IdleRL]
    /\ permits = NoPermits
    /\ calls = 0
    /\ db = "active"
    /\ auth = [r \in Reqs |-> IdleAuth]
    /\ admin = IdleAdmin

\* the request steps of Proxy.Handle
HandleStep ==
    \/ \E r \in Reqs : HandleGetHealthy(r)
    \/ \E r \in Reqs : HandleNext(r)
    \/ \E r \in Reqs : HandleIncrement(r)
    \/ \E r \in Reqs : CallEnter(r)
    \/ \E r \in Reqs, code \in UpstreamStatus : Forward(r, code)
    \/ \E r \in Reqs : ForwardPanic(r)
    \/ \E r \in Reqs : CallRecord(r)
    \/ \E r \in Reqs : HandleReturn(r)

NextDispatch ==
    \/ \E r \in Reqs : Arrive(r)
    \/ Start
    \/ TickerFire
    \/ \E t \in Targets, ok \in BOOLEAN : checkTarget(t, ok)
    \/ checkAllDone
    \/ HandleStep

\* the dispatcher with the health checker probing, all strategies, clock at rest
SpecDispatch == InitDispatch /\ [][NextDispatch]_vars

\* proxy.NewWithConfig has returned: the initial probe round of hc.Start()
\* reported every target healthy; for each load-balancing strategy
InitBreaker ==
    /\ now = 0
    /\ cb = NewBreaker
    /\ resetStatus = 0
    /\ caller = [c \in Callers |-> IdleCaller]
    /\ client = IdleClient
    /\ lbUse = IdleSel
    /\ healthStatus = NewChecker
    /\ healthyTargets = TargetList
    /\ running = TRUE
    /\ checking = FALSE
    /\ pending = {}
    /\ loop = TRUE
    /\ life = [NoLife EXCEPT !.loops = IF loop THEN 1 ELSE 0]
    /\ strategy \in Strategies
    /\ current = 0
    /\ connections = [t \in Targets |-> 0]
    /\ ctx = [r \in Reqs |-> IdleCtx]
    /\ failRun = 0
    /\ succRun = 0
    /\ redis = EmptyStore
    /\ algorithm = "fixed_window"
    /\ faulty = FALSE
    /\ server = NoServer
    /\ mu = NoMu
    /\ pick = NoPick
    /\ tier = NoTier
    /\ rl = [r \in Reqs |-> IdleRL]
    /\ permits = NoPermits
    /\ calls = 0
    /\ db = "active"
    /\ auth = [r \in Reqs |-> IdleAuth]
    /\ admin = IdleAdmin

NextBreaker ==
    \/ \E r \in Reqs : Arrive(r)
    \/ HandleStep
    \/ \E service \in ServiceParams : Reset(service)
    \/ Tick

\* the route's breaker driven by concurrent requests, Reset and the clock
SpecBreaker == InitBreaker /\ [][NextBreaker]_vars

\* a route with a round-robin balancer and a breaker not yet called
InitCall == InitBreaker /\ strategy = "round_robin"

\* the upstream cannot be reached: the reverse proxy's error handler writes
\* 502 Bad Gateway through the recorder
ForwardUnreachable(r) == Forward(r, 502)

NextUpstream ==
    \/ \E r \in Reqs : Arrive(r)
    \/ HandleStep
    \/ \E r \in Reqs : ForwardUnreachable(r)
    \/ Tick

\* the route, for each strategy, with upstreams that answer, fail or cannot be
\* reached
SpecUpstream == InitBreaker /\ [][NextUpstream]_vars

\* each strategy called by NCallers concurrent goroutines
SpecSelect == InitBreaker /\ [][NextSelect]_vars

\* ------------------------------------------------ the gateway end to end
\* Server.initializeProxies: the target list of the proxy built for a service
initializeProxies(targets) == <<targets[1]>>

\* the client sends its next request, after the previous one was answered
ClientSend ==
    /\ ~client.waiting
    /\ client.sent < RequestCount
    /\ ctx[1].pc = "done"
    /\ ctx' = [ctx EXCEPT ![1] = IdleCtx]
    /\ client' = [client EXCEPT !.sent = @ + 1, !.waiting = TRUE]
    /\ UNCHANGED <<extVars, now, cb, failRun, succRun, resetStatus, caller, lbUse, hcVars, lbVars>>

\* the client gets the response: a 2xx with X-Backend-Server is tallied, any
\* other status is an error
ClientReceive ==
    /\ client.waiting
    /\ ctx[1].pc = "done"
    /\ client' =
          IF ctx[1].status = 200 /\ ctx[1].backend # NoTarget
          THEN [client EXCEPT !.waiting = FALSE,
                              !.distribution[ctx[1].backend] = @ + 1]
          ELSE [client EXCEPT !.waiting = FALSE, !.errors = @ + 1]
    /\ UNCHANGED <<extVars, now, cb, failRun, succRun, resetStatus, caller, lbUse, hcVars, lbVars, ctx>>

\* Server.New for one service with NConfigured targets: proxy.New builds a
\* round-robin proxy whose first health round found its targets healthy
InitGateway ==
    /\ now = 0
    /\ cb = NewBreaker
    /\ resetStatus = 0
    /\ caller = [c \in Callers |-> IdleCaller]
    /\ client = IdleClient
    /\ lbUse = IdleSel
    /\ healthStatus = NewChecker
    /\ healthyTargets = initializeProxies(ServiceTargets)
    /\ running = TRUE
    /\ checking = FALSE
    /\ pending = {}
    /\ loop = TRUE
    /\ life = [NoLife EXCEPT !.loops = IF loop THEN 1 ELSE 0]
    /\ strategy = "round_robin"
    /\ current = 0
    /\ connections = [t \in Targets |-> 0]
    /\ ctx = [r \in Reqs |-> [IdleCtx EXCEPT !.pc = "done"]]
    /\ failRun = 0
    /\ succRun = 0
    /\ redis = EmptyStore
    /\ algorithm = "fixed_window"
    /\ faulty = FALSE
    /\ server = NoServer
    /\ mu = NoMu
    /\ pick = NoPick
    /\ tier = NoTier
    /\ rl = [r \in Reqs |-> IdleRL]
    /\ permits = NoPermits
    /\ calls = 0
    /\ db = "active"
    /\ auth = [r \in Reqs |-> IdleAuth]
    /\ admin = IdleAdmin

NextGateway ==
    \/ ClientSend
    \/ ClientReceive
    \/ \E r \in Reqs : HandleGetHealthy(r)
    \/ \E r \in Reqs : HandleNext(r)
    \/ \E r \in Reqs : CallEnter(r)
    \/ \E r \in Reqs, code \in UpstreamStatus : Forward(r, code)
    \/ \E r \in Reqs : CallRecord(r)
    \/ \E r \in Reqs : HandleReturn(r)

\* one client sending RequestCount sequential requests through the route
SpecGateway == InitGateway /\ [][NextGateway]_vars

\* ------------------------------------------- direct callers of the breaker
\* CircuitBreaker.Call, first critical section, for goroutine c: ErrCircuitOpen
\* while Open within Timeout, else the call is admitted and goes on to fn
CallGate(c) ==
    /\ caller[c].pc = "idle"
    /\ IF callRejected(cb, now)
       THEN /\ caller' = [caller EXCEPT ![c] = [pc |-> "done", err |-> "circuit open"]]
            /\ UNCHANGED <<cb, failRun, succRun>>
       ELSE /\ cb' = callGate(cb, now)
            /\ succRun' = IF cb.state = StateOpen THEN 0 ELSE succRun
            /\ failRun' = failRun
            /\ caller' = [caller EXCEPT ![c].pc = "fn"]
    /\ UNCHANGED <<extVars, now, hcVars, lbVars, ctx, resetStatus, client, lbUse>>

\* err := fn(), outside the lock: fn returns nil or an error
CallFn(c, err) ==
    /\ caller[c].pc = "fn"
    /\ caller' = [caller EXCEPT ![c] = [pc |-> "record", err |-> err]]
    /\ UNCHANGED <<extVars, now, hcVars, lbVars, ctx, cb, failRun, succRun, resetStatus, client, lbUse>>

\* CircuitBreaker.Call, second critical section: onFailure or onSuccess
CallOutcome(c) ==
    /\ caller[c].pc = "record"
    /\ IF caller[c].err # "nil"
       THEN /\ cb' = onFailure(cb, now)
            /\ failRun' = Min(failRun + 1, MaxFailures)
            /\ succRun' = 0
       ELSE /\ cb' = onSuccess(cb, now)
            /\ failRun' = 0
            /\ succRun' = IF cb.state = StateHalfOpen
                          THEN Min(succRun + 1, HalfOpenSuccess) ELSE succRun
    /\ caller' = [caller EXCEPT ![c].pc = "done"]
    /\ UNCHANGED <<extVars, now, hcVars, lbVars, ctx, resetStatus, client, lbUse>>

\* the goroutine calls Call again
CallAgain(c) ==
    /\ caller[c].pc = "done"
    /\ caller' = [caller EXCEPT ![c] = IdleCaller]
    /\ UNCHANGED <<extVars, now, hcVars, lbVars, ctx, cb, failRun, succRun, resetStatus, client, lbUse>>

NextCall ==
    \/ \E c \in Callers : CallGate(c)
    \/ \E c \in Callers, err \in {"nil", "error"} : CallFn(c, err)
    \/ \E c \in Callers : CallOutcome(c)
    \/ \E c \in Callers : CallAgain(c)
    \/ Tick

\* one breaker called by NCallers goroutines while the clock advances
SpecCall == InitCall /\ [][NextCall]_vars

NextLifecycle ==
    \/ NoPanic /\ Start
    \/ Stop
    \/ LoopExit
    \/ NoPanic /\ TickerFire
    \/ NoPanic /\ \E t \in Targets, ok \in BOOLEAN : checkTarget(t, ok)
    \/ NoPanic /\ checkAllDone

\* one health checker, started by NewWithConfig, then stopped and started
\* again in any order
SpecLifecycle == InitCall /\ [][NextLifecycle]_vars

\* --------------------------------------------- the breaker's lock, step by step
\* what the lock steps leave alone
muFrame ==
    <<now, hcVars, lbVars, ctx, redis, credVars, algorithm, faulty, tier, server, pick,
      rl, permits, calls, resetStatus, client, lbUse>>

\* cb.mu.Unlock() returning without releasing
Unlock_Held(m) == m

\* cb.mu.Unlock()
Unlock(m) == [m EXCEPT !.writer = 0]

\* cb.mu.Lock() returns only when nobody writes and nobody reads
CanLock(m) == m.writer = 0 /\ m.readers = {}

\* cb.mu.Lock() at the top of Call and after fn, for goroutine c
CallLock(c) ==
    /\ caller[c].pc \in {"idle", "record"}
    /\ mu.writer # c
    /\ CanLock(mu)
    /\ mu' = [mu EXCEPT !.writer = c]
    /\ UNCHANGED <<muFrame, cb, failRun, succRun, caller>>

\* Call between its first Lock and Unlock: ErrCircuitOpen while Open within
\* Timeout, else the call is admitted; the lock is released on both paths
LockedGate(c) ==
    /\ mu.writer = c
    /\ caller[c].pc = "idle"
    /\ IF callRejected(cb, now)
       THEN /\ caller' = [caller EXCEPT ![c] = [pc |-> "done", err |-> "circuit open"]]
            /\ UNCHANGED <<cb, failRun, succRun>>
       ELSE /\ cb' = callGate(cb, now)
            /\ succRun' = IF cb.state = StateOpen THEN 0 ELSE succRun
            /\ failRun' = failRun
            /\ caller' = [caller EXCEPT ![c].pc = "fn"]
    /\ mu' = [Unlock(mu) EXCEPT !.adm[c] = IF callRejected(cb, now) THEN "none"
                                            ELSE callGate(cb, now).state]
    /\ UNCHANGED muFrame

\* Call between its second Lock and the deferred Unlock: onFailure or onSuccess
LockedOutcome(c) ==
    /\ mu.writer = c
    /\ caller[c].pc = "record"
    /\ IF caller[c].err # "nil"
       THEN /\ cb' = onFailure(cb, now)
            /\ failRun' = Min(failRun + 1, MaxFailures)
            /\ succRun' = 0
       ELSE /\ cb' = onSuccess(cb, now)
            /\ failRun' = 0
            /\ succRun' = IF cb.state = StateHalfOpen
                          THEN Min(succRun + 1, HalfOpenSuccess) ELSE succRun
    /\ caller' = [caller EXCEPT ![c].pc = "done"]
    /\ mu' = [Unlock(mu) EXCEPT !.adm[c] = "none"]
    /\ UNCHANGED muFrame

\* cb.mu.RLock() of State or Metrics: returns only when nobody writes
RLock(k) ==
    /\ k \notin mu.readers
    /\ mu.writer = 0
    /\ mu' = [mu EXCEPT !.readers = @ \cup {k}]
    /\ UNCHANGED <<muFrame, cb, failRun, succRun, caller>>

\* State or Metrics returns its copy; the deferred RUnlock
RUnlock(k) ==
    /\ k \in mu.readers
    /\ mu' = [mu EXCEPT !.readers = @ \ {k}]
    /\ UNCHANGED <<muFrame, cb, failRun, succRun, caller>>

\* cb.mu.Lock() of CircuitBreaker.Reset
ResetLock ==
    /\ mu.writer # Resetter
    /\ CanLock(mu)
    /\ mu' = [mu EXCEPT !.writer = Resetter]
    /\ UNCHANGED <<muFrame, cb, failRun, succRun, caller>>

\* CircuitBreaker.Reset between Lock and the deferred Unlock
LockedReset ==
    /\ mu.writer = Resetter
    /\ cb' = resetBreaker(cb, now)
    /\ failRun' = 0
    /\ succRun' = 0
    /\ mu' = Unlock(mu)
    /\ UNCHANGED <<muFrame, caller>>

NextLock ==
    \/ \E c \in Callers : CallLock(c)
    \/ \E c \in Callers : LockedGate(c)
    \/ \E c \in Callers, err \in {"nil", "error"} : CallFn(c, err)
    \/ \E c \in Callers : LockedOutcome(c)
    \/ \E c \in Callers : CallAgain(c)
    \/ \E k \in Readers : RLock(k)
    \/ \E k \in Readers : RUnlock(k)
    \/ ResetLock
    \/ LockedReset
    \/ Tick

\* one breaker called by NCallers goroutines, read by State and Metrics and
\* reset, every acquisition and release of its lock a step
SpecLock == InitCall /\ [][NextLock]_vars

NextShutdown ==
    \/ ServerAccept
    \/ ServerFinish
    \/ Signal
    \/ GraceTick
    \/ RunFatal
    \/ ShutdownReturn
    \/ Alive /\ TickerFire
    \/ Alive /\ \E t \in Targets, ok \in BOOLEAN : checkTarget(t, ok)
    \/ Alive /\ checkAllDone

\* the gateway process from serving to exit, the health checker of its route
\* probing
SpecShutdown == InitCall /\ [][NextShutdown]_vars

\* ---------------------------------------------------------------- pipeline
\* what a request presents in X-API-Key: nothing, or the credential's secret
Presented == {"none", "key"}

\* a request slot whose request has not reached Proxy.Handle
NoCtx == [IdleCtx EXCEPT !.pc = "done"]

\* the engine runs the chain for a new request of the slot; APIKeyValidator
\* begins: without the header the chain goes on, else Validate is called
APIKeyValidator(r, presented) ==
    /\ auth[r].pc \in {"idle", "done"}
    /\ auth' = [auth EXCEPT ![r] =
                 [IdleAuth EXCEPT !.pc = IF presented = "none" THEN "passed" ELSE "get",
                                  !.presented = presented, !.start = now]]
    /\ rl' = [rl EXCEPT ![r] = IdleRL]
    /\ ctx' = [ctx EXCEPT ![r] = NoCtx]
    /\ UNCHANGED <<now, cbVars, hcVars, lbVars, redis, cfgVars, permits, calls, db, admin>>

\* APIKeyValidator after Validate: 401 on an error or a nil key (0: no status
\* written by this middleware)
validatorStatus(apiKey) == IF apiKey THEN 0 ELSE 401

\* APIKeyValidator after Validate: 401 and Abort, or the key is put in the
\* context and the chain goes on
Authenticate(r) ==
    /\ auth[r].pc = "validated"
    /\ auth' = [auth EXCEPT ![r] =
                 IF validatorStatus(auth[r].apiKey) = 0
                 THEN [auth[r] EXCEPT !.pc = "passed"]
                 ELSE [IdleAuth EXCEPT !.pc = "done", !.err = auth[r].err,
                                       !.status = validatorStatus(auth[r].apiKey)]]
    /\ UNCHANGED <<now, dpVars, redis, rlVars, db, admin>>

\* RateLimitWithTier begins: the subject is the key's ID or the client IP, the
\* limiter is built by NewLimiter from the tier's algorithm, Allow is called
RateLimit(r) ==
    /\ auth[r].pc = "passed"
    /\ calls < MaxRequests
    /\ calls' = calls + 1
    /\ rl' = [rl EXCEPT ![r] =
               [IdleRL EXCEPT !.pc = "allow", !.kind = NewLimiter(algorithm),
                              !.subject = IF auth[r].apiKey THEN "key" ELSE "ip",
                              !.id = calls + 1]]
    /\ auth' = [auth EXCEPT ![r].pc = "rate"]
    /\ UNCHANGED <<now, dpVars, redis, cfgVars, permits, db, admin>>

\* RateLimitWithTier after Allow: 500 or 429 and Abort, else c.Next() invokes
\* the route handler
RateLimitNext(r) ==
    /\ auth[r].pc = "rate"
    /\ rl[r].pc = "done"
    /\ IF rl[r].status = 0
       THEN /\ ctx' = [ctx EXCEPT ![r] = IdleCtx]
            /\ auth' = [auth EXCEPT ![r].pc = "dispatch"]
       ELSE /\ auth' = [auth EXCEPT ![r] = [IdleAuth EXCEPT !.pc = "done",
                                                          !.status = rl[r].status]]
            /\ UNCHANGED ctx
    /\ UNCHANGED <<now, cbVars, hcVars, lbVars, redis, rlVars, db, admin>>

\* Proxy.Handle has returned: the response of the request is the handler's
Respond(r) ==
    /\ auth[r].pc = "dispatch"
    /\ ctx[r].pc = "done"
    /\ auth' = [auth EXCEPT ![r] = [IdleAuth EXCEPT !.pc = "done",
                                                    !.status = ctx[r].status]]
    /\ UNCHANGED <<now, dpVars, redis, rlVars, db, admin>>

\* a limiter of each kind built by its constructor over an empty store
InitLimiter ==
    /\ now = 0
    /\ cb = NewBreaker
    /\ resetStatus = 0
    /\ caller = [c \in Callers |-> IdleCaller]
    /\ client = IdleClient
    /\ lbUse = IdleSel
    /\ healthStatus = NewChecker
    /\ healthyTargets = <<>>
    /\ running = FALSE
    /\ checking = FALSE
    /\ pending = {}
    /\ loop = FALSE
    /\ life = [NoLife EXCEPT !.loops = IF loop THEN 1 ELSE 0]
    /\ strategy = "round_robin"
    /\ current = 0
    /\ connections = [t \in Targets |-> 0]
    /\ ctx = [r \in Reqs |-> IdleCtx]
    /\ failRun = 0
    /\ succRun = 0
    /\ redis = EmptyStore
    /\ algorithm \in Algorithms
    /\ faulty = FALSE
    /\ server = NoServer
    /\ mu = NoMu
    /\ pick = NoPick
    /\ tier = NoTier
    /\ rl = [r \in Reqs |-> IdleRL]
    /\ permits = NoPermits
    /\ calls = 0
    /\ db = "active"
    /\ auth = [r \in Reqs |-> IdleAuth]
    /\ admin = IdleAdmin

\* the steps of Limiter.Allow for the three algorithms
AllowStep ==
    \/ \E r \in Reqs : FixedAllow(r)
    \/ \E r \in Reqs, ok \in Outcomes : FixedIncr(r, ok)
    \/ \E r \in Reqs, ok \in Outcomes : FixedExpire(r, ok)
    \/ \E r \in Reqs : SlidingAllow(r)
    \/ \E r \in Reqs, ok \in Outcomes : SlidingPipeline(r, ok)
    \/ \E r \in Reqs, ok \in Outcomes : SlidingZAdd(r, ok)
    \/ \E r \in Reqs, ok \in Outcomes : SlidingExpire(r, ok)
    \/ \E r \in Reqs, ok \in Outcomes : BucketGet(r, ok)
    \/ \E r \in Reqs, ok \in Outcomes : BucketSet(r, ok)

NextLimiter ==
    \/ \E r \in Reqs : CallAllow(r)
    \/ AllowStep
    \/ Tick

\* concurrent Allow calls of one subject on a reliable store
SpecLimiter == InitLimiter /\ [][NextLimiter]_vars

\* the limiters NewLimiter builds for the tiers, and the sliding-window limiter
\* its constructor builds, for the tiers of at most a request per second
TierLimiters ==
    {NewTierLimiter(alg, limit, MinuteSecs) :
        alg \in {"fixed_window", "token_bucket"}, limit \in TierLimits}
        \cup {NewSlidingWindowLimiter(limit, MinuteSecs) :
                    limit \in {l \in TierLimits : l <= MinuteSecs}}

\* a limiter of a tier over an empty store, no request sent
InitTier ==
    /\ now = 0
    /\ cb = NewBreaker
    /\ resetStatus = 0
    /\ caller = [c \in Callers |-> IdleCaller]
    /\ client = IdleClient
    /\ lbUse = IdleSel
    /\ healthStatus = NewChecker
    /\ healthyTargets = <<>>
    /\ running = FALSE
    /\ checking = FALSE
    /\ pending = {}
    /\ loop = FALSE
    /\ life = [NoLife EXCEPT !.loops = IF loop THEN 1 ELSE 0]
    /\ strategy = "round_robin"
    /\ current = 0
    /\ connections = [t \in Targets |-> 0]
    /\ ctx = [r \in Reqs |-> IdleCtx]
    /\ failRun = 0
    /\ succRun = 0
    /\ redis = EmptyStore
    /\ tier \in {[NoTier EXCEPT !.limiter = lim] : lim \in TierLimiters}
    /\ algorithm = tier.limiter.kind
    /\ faulty = FALSE
    /\ server = NoServer
    /\ mu = NoMu
    /\ pick = NoPick
    /\ rl = [r \in Reqs |-> IdleRL]
    /\ permits = NoPermits
    /\ calls = 0
    /\ db = "active"
    /\ auth = [r \in Reqs |-> IdleAuth]
    /\ admin = IdleAdmin

NextTier ==
    \/ \E late \in BOOLEAN : TierRequest(late)
    \/ \E d \in Waits : TierWait(d)

\* the requests of one subject, one at a time, with waits between them
SpecTier == InitTier /\ [][NextTier]_vars

\* NewRoundRobin or NewLeastConnections, and a candidate list to call it with
InitPick ==
    /\ now = 0
    /\ cb = NewBreaker
    /\ resetStatus = 0
    /\ caller = [c \in Callers |-> IdleCaller]
    /\ client = IdleClient
    /\ lbUse = IdleSel
    /\ healthStatus = NewChecker
    /\ healthyTargets = <<>>
    /\ running = FALSE
    /\ checking = FALSE
    /\ pending = {}
    /\ loop = FALSE
    /\ life = [NoLife EXCEPT !.loops = IF loop THEN 1 ELSE 0]
    /\ strategy = "round_robin"
    /\ current = 0
    /\ connections = [t \in Targets |-> 0]
    /\ ctx = [r \in Reqs |-> IdleCtx]
    /\ failRun = 0
    /\ succRun = 0
    /\ redis = EmptyStore
    /\ tier = NoTier
    /\ algorithm = "fixed_window"
    /\ faulty = FALSE
    /\ server = NoServer
    /\ mu = NoMu
    /\ pick \in {[NoPick EXCEPT !.strat = st, !.targets = l] :
                    st \in {"round_robin", "least_connections"}, l \in CandidateLists}
    /\ rl = [r \in Reqs |-> IdleRL]
    /\ permits = NoPermits
    /\ calls = 0
    /\ db = "active"
    /\ auth = [r \in Reqs |-> IdleAuth]
    /\ admin = IdleAdmin

NextPick ==
    \/ \E c \in Callers : PickEnter(c)
    \/ \E c \in Callers : PickLeave(c)
    \/ \E c \in Callers : PickIncrement(c)
    \/ \E c \in Callers : PickDecrement(c)

\* one strategy called by NCallers goroutines with one candidate list
SpecPick == InitPick /\ [][NextPick]_vars

NextScript ==
    \/ \E late \in BOOLEAN : ScriptBurst(late)
    \/ ScriptSleep
    \/ \E late \in BOOLEAN : ScriptFollow(late)

\* the client of test-token-bucket.ps1 against each limiter
SpecScript == InitTier /\ [][NextScript]_vars

\* concurrent Allow calls of one subject on a store whose operations may fail
InitFaulty ==
    /\ now = 0
    /\ cb = NewBreaker
    /\ resetStatus = 0
    /\ caller = [c \in Callers |-> IdleCaller]
    /\ client = IdleClient
    /\ lbUse = IdleSel
    /\ healthStatus = NewChecker
    /\ healthyTargets = <<>>
    /\ running = FALSE
    /\ checking = FALSE
    /\ pending = {}
    /\ loop = FALSE
    /\ life = [NoLife EXCEPT !.loops = IF loop THEN 1 ELSE 0]
    /\ strategy = "round_robin"
    /\ current = 0
    /\ connections = [t \in Targets |-> 0]
    /\ ctx = [r \in Reqs |-> IdleCtx]
    /\ failRun = 0
    /\ succRun = 0
    /\ redis = EmptyStore
    /\ algorithm \in Algorithms
    /\ faulty = TRUE
    /\ server = NoServer
    /\ mu = NoMu
    /\ pick = NoPick
    /\ tier = NoTier
    /\ rl = [r \in Reqs |-> IdleRL]
    /\ permits = NoPermits
    /\ calls = 0
    /\ db = "active"
    /\ auth = [r \in Reqs |-> IdleAuth]
    /\ admin = IdleAdmin

\* the calls of one clock instant
NextFaulty ==
    \/ \E r \in Reqs : CallAllow(r)
    \/ AllowStep

SpecFaulty == InitFaulty /\ [][NextFaulty]_vars

\* the gateway serving requests through the middleware chain of
\* setupMiddleware, with the health checker's first round done, the
\* credential's row in any state, the store reliable or not
InitPipeline ==
    /\ now = 0
    /\ cb = NewBreaker
    /\ resetStatus = 0
    /\ caller = [c \in Callers |-> IdleCaller]
    /\ client = IdleClient
    /\ lbUse = IdleSel
    /\ healthStatus = NewChecker
    /\ healthyTargets = TargetList
    /\ running = TRUE
    /\ checking = FALSE
    /\ pending = {}
    /\ loop = TRUE
    /\ life = [NoLife EXCEPT !.loops = IF loop THEN 1 ELSE 0]
    /\ strategy = "least_connections"
    /\ current = 0
    /\ connections = [t \in Targets |-> 0]
    /\ ctx = [r \in Reqs |-> NoCtx]
    /\ failRun = 0
    /\ succRun = 0
    /\ redis = EmptyStore
    /\ algorithm \in Algorithms
    /\ faulty \in BOOLEAN
    /\ server = NoServer
    /\ mu = NoMu
    /\ pick = NoPick
    /\ tier = NoTier
    /\ rl = [r \in Reqs |-> IdleRL]
    /\ permits = NoPermits
    /\ calls = 0
    /\ db \in RowStates
    /\ auth = [r \in Reqs |-> IdleAuth]
    /\ admin = IdleAdmin

\* the steps of APIKeyService.Validate
ValidateStep ==
    \/ \E r \in Reqs, ok \in Outcomes : ValidateGet(r, ok)
    \/ \E r \in Reqs : ValidateFind(r)
    \/ \E r \in Reqs, ok \in Outcomes : ValidateSet(r, ok)

NextAuth ==
    \/ \E r \in Reqs, presented \in Presented : APIKeyValidator(r, presented)
    \/ ValidateStep
    \/ \E r \in Reqs : ValidateFindErr(r)
    \/ \E r \in Reqs : Authenticate(r)
    \/ \E op \in {"delete", "deactivate"}, ok \in Outcomes : AdminInvalidate(op, ok)
    \/ AdminWrite
    \/ Tick

\* APIKeyValidator over a store and a registry that may be unavailable
SpecAuth == InitPipeline /\ [][NextAuth]_vars

\* the steps of Allow of the limiters NewLimiter builds
TierAllowStep ==
    \/ \E r \in Reqs : FixedAllow(r)
    \/ \E r \in Reqs, ok \in Outcomes : FixedIncr(r, ok)
    \/ \E r \in Reqs, ok \in Outcomes : FixedExpire(r, ok)
    \/ \E r \in Reqs, ok \in Outcomes : BucketGet(r, ok)
    \/ \E r \in Reqs, ok \in Outcomes : BucketSet(r, ok)

NextPipeline ==
    \/ \E r \in Reqs, presented \in Presented : APIKeyValidator(r, presented)
    \/ ValidateStep
    \/ \E r \in Reqs : Authenticate(r)
    \/ \E r \in Reqs : RateLimit(r)
    \/ TierAllowStep
    \/ \E r \in Reqs : RateLimitNext(r)
    \/ HandleStep
    \/ \E r \in Reqs : Respond(r)

SpecPipeline == InitPipeline /\ [][NextPipeline]_vars

\* the credential service with its registry row active and the cache empty
InitCredential ==
    /\ now = 0
    /\ cb = NewBreaker
    /\ resetStatus = 0
    /\ caller = [c \in Callers |-> IdleCaller]
    /\ client = IdleClient
    /\ lbUse = IdleSel
    /\ healthStatus = NewChecker
    /\ healthyTargets = <<>>
    /\ running = FALSE
    /\ checking = FALSE
    /\ pending = {}
    /\ loop = FALSE
    /\ life = [NoLife EXCEPT !.loops = IF loop THEN 1 ELSE 0]
    /\ strategy = "round_robin"
    /\ current = 0
    /\ connections = [t \in Targets |-> 0]
    /\ ctx = [r \in Reqs |-> IdleCtx]
    /\ failRun = 0
    /\ succRun = 0
    /\ redis = EmptyStore
    /\ algorithm = "fixed_window"
    /\ faulty \in BOOLEAN
    /\ server = NoServer
    /\ mu = NoMu
    /\ pick = NoPick
    /\ tier = NoTier
    /\ rl = [r \in Reqs |-> IdleRL]
    /\ permits = NoPermits
    /\ calls = 0
    /\ db = "active"
    /\ auth = [r \in Reqs |-> IdleAuth]
    /\ admin = IdleAdmin

NextCredential ==
    \/ \E r \in Reqs : CallValidate(r)
    \/ ValidateStep
    \/ \E op \in {"delete", "deactivate"}, ok \in Outcomes : AdminInvalidate(op, ok)
    \/ AdminWrite
    \/ Tick

\* validations of the credential concurrent with its Delete or Update
SpecCredential == InitCredential /\ [][NextCredential]_vars

\* ------------------------------------------------------------ properties
Range(seq) == {seq[i] : i \in 1..Len(seq)}

\* request r leaves the breaker gate in this step
Arrives(r) == ctx[r].pc = "call" /\ ctx'[r].pc # "call"

\* C1 (breaker open rejection): when the MaxFailures-th failure outcome in a row
\* (no success outcome, and no administrative Reset, recorded in between) is
\* recorded on a Closed breaker, the breaker is Open; and every call that
\* reaches the gate while the breaker is Open and now - lastFailureTime <=
\* Timeout is rejected: fn is not executed (the request goes straight to the
\* exit of Handle with status 503 and no backend contacted) and the breaker's
\* state, counters and timestamps are unchanged.
C1_OpenRejection ==
    [][ /\ (cb.state = StateClosed /\ failRun' > failRun /\ failRun' >= MaxFailures)
            => cb'.state = StateOpen
        /\ \A r \in Reqs :
            (Arrives(r) /\ cb.state = StateOpen /\ now - cb.lastFailureTime <= Timeout)
            => /\ cb' = cb
               /\ ctx'[r].pc = "exit"
               /\ ctx'[r].status = 503
               /\ ctx'[r].backend = NoTarget
        /\ \A r \in Reqs :
            (ctx[r].pc = "exit" /\ ctx[r].backend = NoTarget /\ ctx'[r] # ctx[r])
            => (ctx'[r].pc = "done" /\ ctx'[r].status = 503 /\ ctx'[r].backend = NoTarget)
      ]_vars

\* a call was rejected on the last instant of the open period, after MaxFailures
\* failures in a row opened the breaker
C1_Witness ==
    \E r \in Reqs :
        /\ ctx[r].pc = "exit"
        /\ ctx[r].status = 503
        /\ ctx[r].backend = NoTarget
        /\ cb.state = StateOpen
        /\ failRun >= MaxFailures
        /\ now - cb.lastFailureTime = Timeout

\* C2 (breaker recovery): a call that reaches the gate of an Open breaker with
\* now - lastFailureTime > Timeout moves it to Half-Open with success count 0
\* and executes fn; when the HalfOpenSuccess-th success outcome since then is
\* recorded in Half-Open (no failure in between) the breaker is Closed with
\* failure count 0; and every call reaching the gate of a Closed breaker
\* executes fn.
C2_Recovery ==
    [][ /\ \A r \in Reqs :
            (Arrives(r) /\ cb.state = StateOpen /\ now - cb.lastFailureTime > Timeout)
            => /\ cb'.state = StateHalfOpen
               /\ cb'.successCount = 0
               /\ ctx'[r].pc = "fn"
        /\ (cb.state = StateHalfOpen /\ succRun' > succRun /\ succRun' >= HalfOpenSuccess)
            => (cb'.state = StateClosed /\ cb'.failureCount = 0)
        /\ \A r \in Reqs :
            (Arrives(r) /\ cb.state = StateClosed)
            => (ctx'[r].pc = "fn" /\ cb'.state = StateClosed)
      ]_vars

\* the breaker went Open -> Half-Open -> Closed through HalfOpenSuccess probe
\* successes and a later call is executing fn
C2_Witness ==
    /\ cb.state = StateClosed
    /\ succRun = HalfOpenSuccess
    /\ cb.failureCount = 0
    /\ cb.lastFailureTime >= 0
    /\ \E r \in Reqs : ctx[r].pc = "fn"

\* C3 (health exclusion): the target a request selected, forwards to and names
\* in X-Backend-Server is a member of the healthy subset GetHealthyTargets
\* returned to that request, for each load-balancing strategy.
C3_HealthExclusion ==
    \A r \in Reqs :
        /\ ctx[r].selectedTarget # NoTarget
            => ctx[r].selectedTarget \in Range(ctx[r].healthyTargets)
        /\ (ctx[r].pc \in {"record", "exit"} /\ ctx[r].backend # NoTarget)
            => (ctx[r].backend \in Range(ctx[r].healthyTargets)
                /\ ctx[r].backend = ctx[r].selectedTarget)

\* a request was forwarded while the healthy subset it was given excluded a target
C3_Witness ==
    \E r \in Reqs :
        /\ ctx[r].pc = "record"
        /\ ctx[r].backend # NoTarget
        /\ Len(ctx[r].healthyTargets) < NTargets

\* the permits of history f whose time lies in the set of times S
RECURSIVE Total(_, _)
Total(f, S) ==
    IF S = {} THEN 0
    ELSE LET t == CHOOSE x \in S : TRUE IN f[t] + Total(f, S \ {t})

Times == 0..MaxTime

\* the times of the window-aligned interval number w
WindowOf(w) == {t \in Times : currentWindow(t) = w}

\* every window-aligned interval holds at most Limit permits of history f
FixedBound(f) == \A w \in Windows : Total(f, WindowOf(w)) <= Limit

\* C4: fixed-window rate bound: in every window-aligned interval of length
\* window at most limit calls to Allow are permitted, whatever the interleaving
\* of the concurrent calls; a permit is placed in time by the clock reading of
\* its call or by the moment the call returned, whichever favours the bound.
C4_FixedWindowBound ==
    algorithm = "fixed_window" => FixedBound(permits.stamp) \/ FixedBound(permits.ret)

\* C5: sliding-window rate bound: for every time t, at most limit permitted
\* requests have their timestamp in (t - window, t], whatever the interleaving
\* of the concurrent calls.
C5_SlidingWindowBound ==
    algorithm = "sliding_window" =>
        \A t \in Times :
            Total(permits.stamp, {u \in Times : t - WindowSecs < u /\ u <= t}) <= Limit

\* one instant holds at most capacity permits of history f, and an interval
\* of length T >= window at most capacity + rate * T
BucketBound(f) ==
    /\ \A t \in Times : f[t] <= capacity
    /\ \A a \in Times, b \in Times :
           b - a >= WindowSecs => Total(f, a..b) <= capacity + refillRate * (b - a)

\* C6: token-bucket rate bound: an instantaneous burst admits at most capacity
\* requests and any interval of length T >= window at most capacity + rate * T,
\* whatever the interleaving of the concurrent calls.
C6_TokenBucketBound ==
    algorithm = "token_bucket" => BucketBound(permits.stamp) \/ BucketBound(permits.ret)

\* C7: fail-closed rate limiting: when a store operation of Allow failed, the
\* call returned an error, the middleware answered 500, and the request was
\* not permitted.
C7_FailClosed ==
    \A r \in Reqs :
        rl[r].pc = "done" /\ rl[r].opFailed =>
            rl[r].err /\ rl[r].status = 500 /\ ~rl[r].allowed

\* C8: algorithm selection by tier: the limiter that checks a request is the
\* algorithm the tier's configuration names (fixed_window, sliding_window,
\* token_bucket).
C8_AlgorithmSelection ==
    \A r \in Reqs : rl[r].pc # "idle" => rl[r].kind = algorithm

\* C9: credential invalidation: once Delete or Update(is_active = false) has
\* returned, a request that presents the credential more than one cache TTL
\* after that return is answered 401, also when validations ran concurrently
\* with the operation.
C9_Invalidation ==
    \A r \in Reqs :
        (/\ auth[r].pc = "validated"
         /\ admin.pc = "done"
         /\ auth[r].start > admin.returned + CacheTTL)
        => validatorStatus(auth[r].apiKey) = 401

\* the records of the rate limiters in the store
Quota(st) == [k \in DOMAIN st.kv \ {CacheKey} |-> st.kv[k]]

\* request r got through the credential check
Authenticated(r) ==
    /\ auth[r].pc \in {"passed", "rate", "dispatch"}
    /\ auth[r].presented = "none" \/ auth[r].apiKey

\* the rate check of request r is over and permitted the request
Permitted(r) == rl[r].pc = "done" /\ rl[r].allowed /\ ~rl[r].err

\* C10: request ordering: credential check, then rate check, then dispatch. A
\* request answered 401 has made no Allow call and has not reached
\* Proxy.Handle; a request whose rate check ended otherwise than permitted
\* (429 or 500) has not reached Proxy.Handle; every step that changes the
\* breaker, a load-balancer counter, or contacts an upstream belongs to a
\* request that is authenticated and permitted; every step that changes a
\* rate-limit record or starts an Allow call belongs to an authenticated
\* request.
C10_Ordering ==
    /\ [](\A r \in Reqs :
            /\ (auth[r].pc = "done" /\ auth[r].status = 401)
                   => rl[r] = IdleRL /\ ctx[r] = NoCtx
            /\ rl[r].pc # "idle" => auth[r].pc \in {"rate", "dispatch", "done"}
            /\ (rl[r].pc = "done" /\ ~Permitted(r)) => ctx[r] = NoCtx
            /\ ctx[r] # NoCtx => Permitted(r))
    /\ [][ (\/ cb' # cb
            \/ current' # current
            \/ connections' # connections
            \/ \E r \in Reqs : ctx'[r].forwarded /\ ~ctx[r].forwarded)
           => \E r \in Reqs :
                 /\ auth[r].pc = "dispatch"
                 /\ Permitted(r)
                 /\ ctx'[r] # ctx[r] ]_vars
    /\ [][ (Quota(redis)' # Quota(redis) \/ calls' # calls)
           => \E r \in Reqs :
                 /\ Authenticated(r)
                 /\ rl'[r] # rl[r] ]_vars

\* one request was answered 401 and another 429 after earlier requests were
\* dispatched and changed the breaker
C10_Witness ==
    \E r1 \in Reqs, r2 \in Reqs :
        /\ auth[r1].pc = "done" /\ auth[r1].status = 401
        /\ auth[r2].pc = "done" /\ auth[r2].status = 429
        /\ rl[r2].pc = "done" /\ ~rl[r2].allowed
        /\ cb # NewBreaker

\* the requests that ran Increment(t) and whose Handle has not returned
InFlight(t) ==
    {r \in Reqs : ctx[r].pc \in {"call", "fn", "record", "exit"}
                  /\ ctx[r].selectedTarget = t}

\* the requests inside Handle for which Next selected t
Selected(t) ==
    {r \in Reqs : ctx[r].pc \in {"increment", "call", "fn", "record", "exit"}
                  /\ ctx[r].selectedTarget = t}

FlaggedHealthy == {t \in Targets : healthStatus[t].IsHealthy}

\* C12: health snapshot consistency: in every state a reader can observe while
\* probe rounds run (from the end of the first round on), the healthy subset
\* returned by GetHealthyTargets is exactly the set of targets whose status
\* has the healthy flag set.
C12_SnapshotConsistency ==
    loop => Range(GetHealthyTargets) = FlaggedHealthy

\* C13: health failure threshold: a healthy target is flipped to unhealthy
\* exactly when a failed probe brings its consecutive-failure counter to
\* HCMaxFailures or more; the counter is 0 after a successful probe and one
\* more after a failed one, so it counts the failed probes since the last
\* success; an unhealthy target always has HCMaxFailures or more failed probes
\* in a row behind it.
C13_FailureThreshold ==
    /\ [](\A t \in Targets :
            ~healthStatus[t].IsHealthy => healthStatus[t].FailureCount >= HCMaxFailures)
    /\ [][\A t \in Targets :
            /\ checkTarget(t, TRUE) => healthStatus'[t].FailureCount = 0
            /\ checkTarget(t, FALSE) =>
                 /\ healthStatus'[t].FailureCount = healthStatus[t].FailureCount + 1
                 /\ (healthStatus[t].IsHealthy /\ ~healthStatus'[t].IsHealthy)
                      <=> (healthStatus[t].IsHealthy
                           /\ healthStatus'[t].FailureCount >= HCMaxFailures)
            /\ (healthStatus[t].IsHealthy /\ ~healthStatus'[t].IsHealthy)
                 => checkTarget(t, FALSE)]_vars

\* a target has just been flipped: it is unhealthy with exactly HCMaxFailures
\* failures in a row, while the other target, one failure short, is healthy
C13_Witness ==
    \E t \in Targets, u \in Targets :
        /\ ~healthStatus[t].IsHealthy
        /\ healthStatus[t].FailureCount = HCMaxFailures
        /\ healthStatus[u].IsHealthy
        /\ healthStatus[u].FailureCount = HCMaxFailures - 1

\* C14: health recovery: a successful probe sets the target's
\* consecutive-failure counter to 0 and flags the target healthy; when the
\* probe round that contains this success completes, the target is in the
\* healthy subset again.
C14_HealthRecovery ==
    [][/\ \A t \in Targets :
             checkTarget(t, TRUE) =>
                 healthStatus'[t].FailureCount = 0 /\ healthStatus'[t].IsHealthy
       /\ checkAllDone =>
             \A t \in Targets :
                 healthStatus[t].FailureCount = 0 => t \in Range(healthyTargets')]_vars

\* a request that read the healthy subset while t was excluded is still in
\* flight, t is back in the healthy subset and another request was sent to it
C14_Witness ==
    \E t \in Targets, r1 \in Reqs, r2 \in Reqs :
        /\ ctx[r1].pc = "fn"
        /\ t \notin Range(ctx[r1].healthyTargets)
        /\ t \in Range(healthyTargets)
        /\ healthStatus[t].FailureCount = 0
        /\ ctx[r2].pc = "fn"
        /\ ctx[r2].selectedTarget = t

\* the targets for which HCMaxFailures failed probes in a row have not been recorded
NotYetFailed ==
    {t \in Targets : healthStatus[t].IsHealthy /\ healthStatus[t].FailureCount < HCMaxFailures}

\* C15: targets start healthy: from the creation of the health checker until
\* HCMaxFailures consecutive failed probes have been recorded for it, every
\* configured target is in the healthy subset, also before the first probe
\* round has completed.
C15_StartHealthy ==
    ~loop => NotYetFailed \subseteq Range(GetHealthyTargets)

\* request r enters Proxy.Handle while the healthy subset is empty
DispatchEmpty(r) ==
    /\ ctx[r].pc = "idle"
    /\ ctx'[r].pc # "idle"
    /\ Len(GetHealthyTargets) = 0

\* C16: no healthy upstream: when the healthy subset is empty at dispatch
\* time, Handle answers 503 and returns with no load-balancer selection, no
\* breaker call and no upstream request; breaker state, breaker counters, the
\* round-robin counter and the least-connections counts are unchanged.
C16_NoHealthyUpstream ==
    [][\A r \in Reqs :
          DispatchEmpty(r) =>
              /\ ctx'[r].pc = "done"
              /\ ctx'[r].status = 503
              /\ ctx'[r].selectedTarget = NoTarget
              /\ ctx'[r].backend = NoTarget
              /\ ~ctx'[r].forwarded
              /\ UNCHANGED <<cb, current, connections>>]_vars

\* every target is unhealthy, a request has been answered 503 without a
\* selection, and the breaker has never recorded anything
C16_Witness ==
    \E r \in Reqs :
        /\ loop
        /\ Len(healthyTargets) = 0
        /\ FlaggedHealthy = {}
        /\ ctx[r].pc = "done"
        /\ ctx[r].status = 503
        /\ ctx[r].selectedTarget = NoTarget
        /\ ~ctx[r].forwarded

\* request r's call records a failure outcome in this step
RecordsFailure(r) ==
    ctx[r].pc = "record" /\ ctx'[r].pc # "record" /\ fnFailed(ctx[r].statusCode)

\* request r's call records a success outcome in this step
RecordsSuccess(r) ==
    ctx[r].pc = "record" /\ ctx'[r].pc # "record" /\ ~fnFailed(ctx[r].statusCode)

\* C17: Half-Open failure re-opens: a failure outcome recorded in Half-Open
\* moves the breaker to Open and sets lastFailureTime to the time of that
\* failure; while the breaker stays Open lastFailureTime never moves back,
\* every call that reaches the gate with now - lastFailureTime <= Timeout is
\* rejected without a change to the breaker, and the breaker leaves Open only
\* through the gate after more than Timeout or through an administrative Reset.
C17_HalfOpenFailure ==
    [][ /\ \A r \in Reqs :
            (RecordsFailure(r) /\ cb.state = StateHalfOpen)
            => /\ cb'.state = StateOpen
               /\ cb'.lastFailureTime = now
               /\ cb'.lastStateChange = now
        /\ \A r \in Reqs :
            (Arrives(r) /\ cb.state = StateOpen /\ now - cb.lastFailureTime <= Timeout)
            => (cb' = cb /\ ctx'[r].pc = "exit" /\ ctx'[r].status = 503
                /\ ~ctx'[r].forwarded)
        /\ (cb.state = StateOpen /\ cb'.state = StateOpen)
            => cb'.lastFailureTime >= cb.lastFailureTime
        /\ (cb.state = StateOpen /\ cb'.state # StateOpen)
            => \/ cb' = resetBreaker(cb, now)
               \/ (cb'.state = StateHalfOpen /\ now - cb.lastFailureTime > Timeout)
      ]_vars

\* the breaker was re-opened by a failure in Half-Open (more failures are
\* counted than one open period can collect) and a later call is rejected
C17_Witness ==
    \E r \in Reqs :
        /\ cb.state = StateOpen
        /\ cb.failureCount >= MaxFailures + NReq
        /\ cb.lastStateChange = cb.lastFailureTime
        /\ now - cb.lastFailureTime <= Timeout
        /\ ctx[r].pc = "exit"
        /\ ctx[r].status = 503
        /\ ~ctx[r].forwarded

\* C18: only consecutive failures open the breaker: in Closed, a recorded
\* success sets the failure count to 0 and keeps the breaker Closed; the
\* failure count of a Closed breaker is the number of failure outcomes
\* recorded since the last recorded success (or Reset) and is below
\* MaxFailures; and the breaker leaves Closed only in a step that records a
\* failure outcome which is the MaxFailures-th in a row, in the order the
\* outcomes are recorded.
C18_ConsecutiveFailures ==
    /\ [](cb.state = StateClosed =>
            (cb.failureCount = failRun /\ cb.failureCount < MaxFailures))
    /\ [][ /\ \A r \in Reqs :
                (RecordsSuccess(r) /\ cb.state = StateClosed)
                => (cb'.failureCount = 0 /\ cb'.state = StateClosed)
           /\ (cb.state = StateClosed /\ cb'.state # StateClosed)
                => /\ \E r \in Reqs : RecordsFailure(r)
                   /\ failRun' = failRun + 1
                   /\ failRun' >= MaxFailures
                   /\ cb'.state = StateOpen
         ]_vars

\* a failure was recorded at the current time on a breaker that has been
\* Closed since construction, and a success recorded after it has put the
\* failure count back to 0
C18_Witness ==
    \E r \in Reqs :
        /\ cb.state = StateClosed
        /\ now >= 1
        /\ cb.lastStateChange = 0
        /\ cb.lastFailureTime = now
        /\ cb.failureCount = 0
        /\ ctx[r].pc = "exit"
        /\ ctx[r].statusCode = 200

\* CircuitBreaker.Metrics
Metrics ==
    [State |-> cb.state, FailureCount |-> cb.failureCount,
     SuccessCount |-> cb.successCount, LastFailureTime |-> cb.lastFailureTime,
     LastStateChange |-> cb.lastStateChange]

\* C19: closing resets the counters: when a success in Half-Open has brought
\* the success count to HalfOpenSuccess and closed the breaker (and no failure
\* outcome, gate transition or Reset has happened since), both the failure
\* count and the success count reported by Metrics are 0.
C19_ClosingResets ==
    (cb.state = StateClosed /\ succRun >= HalfOpenSuccess)
        => (Metrics.FailureCount = 0 /\ Metrics.SuccessCount = 0)

Executing == {c \in Callers : caller[c].pc = "fn"}

\* C21: Half-Open lets through only a limited number of probes: while the
\* breaker is Half-Open, at most HalfOpenSuccess admitted calls are executing
\* fn at the same time.
C21_HalfOpenProbes ==
    cb.state = StateHalfOpen => Cardinality(Executing) <= HalfOpenSuccess

\* request r's call records its outcome in this step
Records(r) == ctx[r].pc = "record" /\ ctx'[r].pc # "record"

\* C22: upstream outcome classification: the dispatcher reports a call to the
\* breaker as a failure exactly when the status code written for the
\* upstream response is >= 500 (the 502 of an unreachable upstream included)
\* and as a success for every status below 500; the status written by the
\* upstream, 5xx included, is the status the client gets.
C22_OutcomeClassification ==
    [][\A r \in Reqs :
          /\ Records(r) =>
                /\ ctx[r].statusCode >= 500 =>
                       (cb' = onFailure(cb, now) /\ cb'.failureCount = cb.failureCount + 1)
                /\ ctx[r].statusCode < 500 =>
                       (cb' = onSuccess(cb, now) /\ cb'.failureCount <= cb.failureCount
                        /\ cb'.lastFailureTime = cb.lastFailureTime)
                /\ ctx'[r].status = ctx[r].statusCode
          /\ (ctx[r].pc = "fn" /\ ctx'[r].pc = "record") =>
                (ctx'[r].status = ctx'[r].statusCode /\ ctx'[r].forwarded)
          /\ (ctx[r].pc = "exit" /\ ctx'[r].pc = "done" /\ ctx[r].forwarded) =>
                ctx'[r].status = ctx[r].status
      ]_vars

\* a 502 was passed to the client and recorded as a failure at the current
\* time, and a 404 recorded after it as a success has reset the failure count
C22_Witness ==
    \E r1 \in Reqs, r2 \in Reqs :
        /\ ctx[r1].pc = "done"
        /\ ctx[r1].status = 502
        /\ ctx[r2].pc = "exit"
        /\ ctx[r2].statusCode = 404
        /\ cb.state = StateClosed
        /\ cb.failureCount = 0
        /\ cb.lastFailureTime = now

\* C23: round-robin distribution end to end: for a route configured with
\* NConfigured = 3 targets that are all healthy, RequestCount = 12 sequential
\* requests through the gateway, all answered 200, are spread (4,4,4) over the
\* three targets.
C23_RoundRobinDistribution ==
    (client.sent = RequestCount /\ ~client.waiting /\ client.errors = 0)
        => \A t \in 1..NConfigured :
               client.distribution[t] = RequestCount \div NConfigured

\* C24: load-balancer thread safety: whenever two goroutines are inside
\* methods of the same strategy at the same time and one of them writes the
\* strategy's mutable state (round-robin counter, generator state, connection
\* map), they are not both working on it: one holds the lock and the other
\* waits, for round-robin, random and least-connections.
C24_MutualExclusion ==
    \A c \in Inside, d \in Inside :
        c # d => ~(Writes(strategy, lbUse.op[c]) \/ Writes(strategy, lbUse.op[d]))

\* the permits of window w that the fixed-window counter has already given:
\* the permits returned, and the first call of the window still at Expire
Granted(w) ==
    Total(permits.stamp, WindowOf(w))
        + Cardinality({q \in Reqs : /\ rl[q].kind = "fixed_window"
                                    /\ rl[q].pc = "expire"
                                    /\ currentWindow(rl[q].now) = w
                                    /\ fixedAllowed(rl[q].count)})

\* C25: fixed-window reset: a call of the fixed-window limiter is rejected only
\* when the window its clock reading falls in has already given limit permits,
\* so a subject rejected in one window is permitted again as soon as the next
\* window starts and gets a full limit permits there; the requests rejected in
\* the old window do not reduce the new window's quota.
C25_FixedWindowReset ==
    [][\A r \in Reqs :
        (/\ rl[r].kind = "fixed_window"
         /\ rl[r].pc \in {"incr", "expire"}
         /\ rl'[r].pc = "done"
         /\ ~rl'[r].err
         /\ ~rl'[r].allowed)
            => Granted(currentWindow(rl[r].now)) >= Limit]_vars

\* a call was rejected in window 0 after its limit permits, and window 1 has
\* given its own limit permits
C25_Witness ==
    /\ algorithm = "fixed_window"
    /\ \E r \in Reqs : /\ rl[r].pc = "done"
                       /\ rl[r].status = 429
                       /\ currentWindow(rl[r].now) = 0
    /\ Total(permits.stamp, WindowOf(0)) = Limit
    /\ Total(permits.stamp, WindowOf(1)) = Limit

\* C26: token-bucket refill scenario: against the token bucket of a tier of 60
\* requests per minute, the script's 65 requests at one instant get exactly 60
\* permits, and after its wait of 3 s the next 35 requests get about 30 permits
\* (here: at least half of the 30 the script expects), the remainder 429.
C26_RefillScenario ==
    (/\ tier.limiter.kind = "token_bucket"
     /\ tier.limiter.limit = BurstExpected
     /\ tier.sent = Burst + Follow)
        => /\ tier.burst = BurstExpected
           /\ 2 * tier.refilled >= FollowExpected
           /\ tier.refilled <= Follow

\* C27: token-bucket default rate: the bucket NewLimiter builds for a tier of
\* limit L over a window of W seconds has capacity L and refills at L / W
\* tokens per second, for every L >= 1: e seconds after its record was written
\* with some tokens, it holds those tokens plus the whole tokens of e * L / W,
\* and never more than L.
C27_DefaultRate ==
    (tier.limiter.kind = "token_bucket" /\ ~Missing(redis, BucketKey("key")))
        => LET state == Get(redis, BucketKey("key"))
               elapsed == now - state.LastRefill
           IN  TokenBucketRemaining(tier.limiter, redis, now)
                   = Min(state.Tokens + (elapsed * tier.limiter.limit) \div MinuteSecs,
                         tier.limiter.limit)

\* C28: Retry-After bound: on every 429 response, for each of the three
\* algorithms and for any tier limit, Retry-After is between 0 and the window
\* seconds of the pipeline, 60.
C28_RetryAfterBound ==
    tier.status = 429 => (0 <= tier.retryAfter /\ tier.retryAfter <= MinuteSecs)


\* C29: Remaining header tracks consumption: with one request of the subject
\* at a time, the answer to the k-th permitted request of a fixed window
\* (k <= limit) carries X-RateLimit-Remaining = limit - k, and a 429 answer
\* carries 0; k is the window's counter while no later request has touched it.
C29_RemainingTracks ==
    (/\ tier.limiter.kind = "fixed_window"
     /\ tier.status # 0
     /\ tier.at = now)
        => LET k == Get(redis, FixedKey("key", tier.at \div MinuteSecs))
           IN  /\ tier.status = 200 => tier.remaining = tier.limiter.limit - k
               /\ tier.status = 429 => tier.remaining = 0


\* C30: Remaining range: for each algorithm, after any sequence of requests of
\* a subject and any advance of time, the value Remaining returns, the
\* X-RateLimit-Remaining of the last answer, and the token count stored for a
\* token bucket are all >= 0 and <= the configured limit.
C30_RemainingRange ==
    LET lim == tier.limiter
        inRange(v) == 0 <= v /\ v <= lim.limit
    IN  /\ inRange(Remaining(lim, redis, now))
        /\ tier.status # 0 => inRange(tier.remaining)
        /\ (lim.kind = "token_bucket" /\ ~Missing(redis, BucketKey("key")))
                => inRange(Get(redis, BucketKey("key")).Tokens)

\* a token bucket that was drawn on is read after enough time for the refill to
\* pass its capacity, and a subject that was rejected has waited
C30_Witness ==
    /\ tier.limiter.kind = "token_bucket"
    /\ ~Missing(redis, BucketKey("key"))
    /\ LET state == Get(redis, BucketKey("key"))
       IN  /\ state.Tokens < tier.limiter.limit
           /\ state.Tokens + (now - state.LastRefill) * tier.limiter.refillRate
                  > tier.limiter.limit
    /\ tier.status = 429


\* C31: authentication unavailable is distinct from invalid: a request whose
\* Validate failed because the registry was unavailable is not answered with
\* the 401 of an unknown or inactive key.
C31_UnavailableDistinct ==
    \A r \in Reqs : (auth[r].pc = "done" /\ auth[r].err) => auth[r].status # 401


\* C32: shutdown: once SIGINT or SIGTERM has been received the listener
\* accepts no more, the health-check loop of the route has been asked to exit
\* (its stop channel is closed) and no further probe round is started, and the
\* process exits only with no request in flight or after the whole grace
\* period.
C32_Shutdown ==
    /\ server.phase # "serving" => ~server.accepting
    /\ server.phase # "serving" => life.stopChan = "closed"
    /\ (server.phase = "shutdown" /\ checking) => server.roundAtSignal
    /\ server.phase = "exited" => (server.cut = 0 \/ server.elapsed = GraceSecs)


\* C33: breaker lock discipline: a goroutine holds the breaker lock only
\* inside the two critical sections of Call (never while fn runs, never after
\* Call has returned), so a State, Metrics or Reset that waits for the lock
\* waits for a critical section and not for an upstream call; and the
\* breaker's state and counters change only in a step of the goroutine that
\* holds the write lock, while no reader holds the lock.
C33_LockDiscipline ==
    /\ [](\A c \in Callers : mu.writer = c => caller[c].pc \in {"idle", "record"})
    /\ [](mu.writer # 0 => mu.readers = {})
    /\ [][cb' # cb => (mu.writer # 0 /\ mu.readers = {} /\ mu'.writer = 0)]_vars

\* two Calls execute fn at the same time while Reset holds the lock
C33_Witness ==
    \E c1, c2 \in Callers :
        /\ c1 # c2
        /\ caller[c1].pc = "fn"
        /\ caller[c2].pc = "fn"
        /\ mu.writer = Resetter


\* the targets a round-robin strategy returned on calls k .. k + n - 1
Returned(k, n) == {pick.out[j][2] : j \in k..(k + n - 1)}

\* C34: round-robin is cyclic: with one non-empty candidate list of length n,
\* the i-th call of Next (i from 0, in the order the calls take the lock)
\* reads counter value i and returns candidates[i mod n], so any n
\* consecutive calls return each candidate exactly once, and no counter value
\* is used by two calls, however the calling goroutines interleave.
C34_RoundRobinCyclic ==
    pick.strat = "round_robin" =>
        LET n == Len(pick.targets)
        IN  /\ \A k \in 1..Len(pick.out) :
                   pick.out[k] = <<k - 1, pick.targets[((k - 1) % n) + 1]>>
            /\ \A k \in 1..Len(pick.out) :
                   k + n - 1 <= Len(pick.out) =>
                       Returned(k, n) = {pick.targets[i] : i \in 1..n}
            /\ \A j, k \in 1..Len(pick.out) : j # k => pick.out[j][1] # pick.out[k][1]
            /\ pick.current = Len(pick.out)

\* MaxCalls calls of three goroutines on the candidate list <<2, 1>> have
\* returned, the last two of them to different goroutines
C34_Witness ==
    /\ pick.strat = "round_robin"
    /\ pick.targets = <<2, 1>>
    /\ Len(pick.out) = MaxCalls
    /\ \E c, d \in Callers : c # d /\ pick.got[c] = 2 /\ pick.got[d] = 1


\* TRUE iff t is the candidate of the list with the minimal count in conns
\* that comes first in the list
FirstMinimal(t, targets, conns) ==
    \E j \in 1..Len(targets) :
        /\ targets[j] = t
        /\ \A k \in 1..Len(targets) : conns[targets[k]] >= conns[t]
        /\ \A k \in 1..(j - 1) : conns[targets[k]] > conns[t]

\* C35: least-connections choice: a Next that returns, for any non-empty
\* candidate list and any active counts, returns a candidate whose count is
\* minimal among the candidates, the first such candidate in the list, and
\* leaves every count as it was.
C35_LeastConnectionsChoice ==
    [][\A c \in Callers :
          (pick.strat = "least_connections" /\ pick.pc[c] = "in" /\ pick'.pc[c] = "ready")
              => /\ FirstMinimal(pick'.got[c], pick.targets, pick.conns)
                 /\ pick'.conns = pick.conns
      ]_vars

\* on the list <<2, 1>> the first Next returned target 2, both counts being
\* 0, its caller counted it, and the second Next returned target 1
C35_Witness ==
    /\ pick.strat = "least_connections"
    /\ pick.targets = <<2, 1>>
    /\ Len(pick.out) = 2
    /\ pick.out[1][2] = 2
    /\ pick.out[2][2] = 1
    /\ pick.conns[2] = 1
    /\ pick.conns[1] = 0


\* C36: breaker counter invariants: in every reachable state, for any
\* interleaving of Call and Reset, a Closed breaker has a failure count below
\* MaxFailures, a Half-Open breaker has a success count below HalfOpenSuccess,
\* and the success count never exceeds HalfOpenSuccess.
C36_CounterInvariants ==
    /\ cb.state = StateClosed => cb.failureCount < MaxFailures
    /\ cb.state = StateHalfOpen => cb.successCount < HalfOpenSuccess
    /\ cb.successCount <= HalfOpenSuccess
    /\ cb.successCount >= 0 /\ cb.failureCount >= 0

\* the breaker, closed by HalfOpenSuccess probes, has since recorded
\* MaxFailures - 1 failures
C36_Witness ==
    /\ cb.state = StateClosed
    /\ cb.successCount = HalfOpenSuccess
    /\ cb.failureCount = MaxFailures - 1
    /\ cb.failureCount > 0


\* goroutine c records the outcome of its call in this step
RecordsOutcome(c) == mu.writer = c /\ caller[c].pc = "record" /\ caller'[c].pc = "done"

\* C37: only probes close the breaker: when a call that was admitted while
\* the breaker was Closed succeeds and its outcome is recorded while the
\* breaker is Half-Open, the success count stays as it is and the breaker stays
\* Half-Open.
C37_OnlyProbesClose ==
    [][\A c \in Callers :
          (RecordsOutcome(c) /\ caller[c].err = "nil" /\ mu.adm[c] = StateClosed
             /\ cb.state = StateHalfOpen)
              => (cb'.successCount = cb.successCount /\ cb'.state = StateHalfOpen)
      ]_vars

\* C38: the open period is not postponed by late outcomes: a failure recorded
\* while the breaker is Open leaves last-failure as it is, and a call that
\* passes the gate more than Timeout after the breaker opened is admitted as a
\* Half-Open probe.
C38_OpenNotPostponed ==
    [][\A c \in Callers :
          /\ (RecordsOutcome(c) /\ caller[c].err # "nil" /\ cb.state = StateOpen)
                => cb'.lastFailureTime = cb.lastFailureTime
          /\ (mu.writer = c /\ caller[c].pc = "idle" /\ caller'[c].pc # "idle"
                /\ cb.state = StateOpen /\ now - cb.lastStateChange > Timeout)
                => (caller'[c].pc = "fn" /\ cb'.state = StateHalfOpen)
      ]_vars


\* C39: health-checker lifecycle: for every sequence of Start and Stop calls
\* on one checker, Stop never closes the stop channel a second time (it never
\* panics), at most one periodic probe loop is alive at a time, and a checker
\* that is running and past its initial round has a periodic loop alive (a
\* Start that follows a Stop resumes periodic probing).
C39_Lifecycle ==
    /\ ~life.panicked
    /\ life.loops <= 1
    /\ (running /\ ~life.initial) => life.loops >= 1


\* C40: least-connections selection sees earlier selections: two requests
\* that have both been given a target out of the same two healthy targets
\* with equal active counts, neither of them counted yet, have been given
\* different targets; no request is between its Next and its Increment while
\* another one is there.
C40_SelectionSeesEarlier ==
    \A r1, r2 \in Reqs :
        (/\ r1 # r2
         /\ strategy = "least_connections"
         /\ ctx[r1].pc = "increment"
         /\ ctx[r2].pc = "increment"
         /\ ctx[r1].healthyTargets = TargetList
         /\ ctx[r2].healthyTargets = TargetList
         /\ \A t, u \in Targets : connections[t] = connections[u])
            => ctx[r1].selectedTarget # ctx[r2].selectedTarget

====
